---- MODULE Spec2Model ----
(***************************************************************************)
(* A model of the indexing and retrieval pipeline:                         *)
(*   - processConcurrently            (app/api/index/route.ts)             *)
(*   - getMilvusClient, searchVectors (lib/milvus.ts)                      *)
(*   - ZillizClient.createCollection, ZillizClient.searchVectors           *)
(*   - createIndexIfNeeded            (app/api/index/route.ts)             *)
(*   - POST, processCodeFileContent   (app/api/index/route.ts)             *)
(*   - ZillizClient.insertVectors                                          *)
(* The vector store, the embedding service and the JavaScript event loop   *)
(* are the environment: their replies are nondeterministic choices.        *)
(***************************************************************************)
EXTENDS Integers, Sequences, FiniteSets, TLC

VARIABLES
  \* ---- processConcurrently (route.ts 28-52)
  items,            \* the items argument
  maxConcurrency,   \* the maxConcurrency argument
  i,                \* the loop index (0-based, as in the code)
  opState,          \* per item position: "idle" | "running" | "fulfilled" | "rejected"
  results,          \* the results array
  pcRun,            \* "loop" | "await" | "done" | "rejected"
  batches,          \* history: the set of positions started by each batch.map
  startCount,       \* history: how often processor was called per position
  overtook,         \* history: a call fulfilled while an earlier call of its batch ran
  \* ---- the vector store (the environment of lib/milvus.ts and ZillizClient)
  collections,      \* collection name -> dimension of its vector field, 0 = absent
  indexState,       \* index on 'embedding': "absent" | "building" | "finished" | "failed"
  storeHits,        \* the ranked rows the store holds for the query vector
  honoursFilter,    \* whether the store applies the filter expression of a search
  \* ---- the callers of the gateway functions
  call,             \* per caller: function, arguments, position, locals, history
  \* ---- the indexing requests (POST of route.ts) and the stored rows
  post,             \* per caller: request body, position, locals, history
  inserted,         \* the rows of the collection code_embeddings, in insert order
  \* ---- the browser client (ApiClient.getBuildGuideStream, ChatModeContent)
  stream,           \* the build guide stream call: response text, position, buffer, callbacks
  chat              \* the chat component: isTyping, chatError, messages, requests

clientVars == <<stream, chat>>
runnerVars ==
  <<items, maxConcurrency, i, opState, results, pcRun, batches, startCount, overtook>>
\* The variables outside the store and the indexing requests.
runVars == <<runnerVars, clientVars>>
storeVars == <<collections, indexState, storeHits, honoursFilter>>

postVars == <<post, inserted>>

vars == <<runVars, storeVars, call, postVars>>

(***************************************************************************)
(* Bounds of the model                                                     *)
(***************************************************************************)
MaxItems == 7
MaxConc == 5
NumCallers == 2
MaxHits == 2
MaxTotal == 2
MaxVectors == 300
MaxFiles == 2
MaxChunks == 3
PairChunks == 2
MaxFullBatches == 2
ManyFiles == 6
ManyChunks == 2
ManyEmbeds == 11
MaxLines == 4
\* The chatMessage events one chat session gets.
MaxChats == 3
\* The reply time (ms) of a slow getIndexState request.
SlowReply == 60000

Min(a, b) == IF a < b THEN a ELSE b
Max(a, b) == IF a > b THEN a ELSE b

(***************************************************************************)
(* The callers and the vector store                                        *)
(***************************************************************************)
Callers == 1..NumCallers

COLLECTION_NAME == "code_embeddings"
\* type_params: { dim: '1024' } of getMilvusClient's embedding field
MILVUS_DIM == 1024
CollNames == {COLLECTION_NAME, "other_collection"}
Sessions == {"s1", "s2"}

\* A caller that runs nothing.
Blank ==
  [ fn |-> "none", pc |-> "idle",
    name |-> COLLECTION_NAME, dim |-> MILVUS_DIM,       \* ensure-collection arguments
    session |-> "s1", limit |-> 1,                      \* search arguments
    hasValue |-> "unset",                               \* hasCollection.value, as text
    creates |-> 0,                                      \* history: createCollection requests
    after |-> {},                                       \* history: callers returned before entry
    sentFilter |-> [field |-> "unsent", equals |-> ""],   \* history: filter of the search request
    out |-> <<>>,                                       \* the returned results
    error |-> "none",                                   \* the error thrown
    total |-> 1,                                        \* totalEmbeddings argument
    indexInfo |-> [isNull |-> TRUE, descriptions |-> 0],
    nlist |-> 0,                                        \* nlist of the createIndex request
    elapsedTime |-> <<0, 0>>,                           \* ms and 1/TimeScale ms
    pollInterval |-> 0,                                 \* in 1/TimeScale ms
    retryCount |-> 0,
    createIndexCalls |-> 0,                             \* history: createIndex requests
    polls |-> 0,                                        \* history: getIndexState requests
    sleeps |-> 0,                                       \* history: completed sleeps
    wall |-> 0,                                         \* ms since createIndex returned
    lastPollWall |-> 0,                                 \* history: wall at the last poll
    existedAtCall |-> FALSE,                            \* history: index existed on entry
    describeFound |-> FALSE,                            \* history: describeIndex reported it
    buildingRun |-> FALSE,                              \* history: every poll saw building
    sawFailed |-> FALSE,                                \* history: a poll saw failed
    pollsAtFailed |-> 0,
    sleepsAtFailed |-> 0,
    prevInterval |-> 0,                                 \* history: interval of the last sleep
    sleptMs |-> 0,                                      \* history: sum of the timer delays
    replied |-> FALSE,                                  \* history: client.search resolved
    collectionAtCall |-> FALSE ]                        \* history: collection existed on entry

\* The store variables in a specification that does not use the store.
StoreUnused ==
  /\ collections = [n \in CollNames |-> 0]
  /\ indexState = "absent"
  /\ storeHits = <<>>
  /\ honoursFilter = TRUE

\* A caller without indexing request.
NoRequest ==
  [ pc |-> "idle",
    body |-> [kind |-> "none", sessionId |-> "", codeFilesKind |-> "missing",
              codeFiles |-> <<>>],
    i |-> 0,                      \* processConcurrently over the files: loop index
    fileState |-> <<>>,           \* per file: "idle" | "chunking" | "embedding" | "fulfilled"
    fileValue |-> <<>>,           \* per file: the array processCodeFileContent returned
    allEmbeddings |-> <<>>,       \* the results array of the file runner
    chunkI |-> <<>>,              \* per file: loop index of the chunk runner
    chunkState |-> <<>>,          \* per file, per chunk: "idle" | "running" | "ok" | "empty" | "error"
    chunkResults |-> <<>>,        \* per file: the results array of the chunk runner
    embedCalls |-> <<>>,          \* history, per file, per chunk: generateEmbeddings calls
    embeddingsToInsert |-> <<>>,  \* the flattened records
    insertI |-> 0,                \* the loop index of the insert loop
    insertReqs |-> <<>>,          \* history: the insert requests, as record positions
    data |-> <<>>,                \* the data argument of ZillizClient.insertVectors
    flatDone |-> FALSE,           \* history: allEmbeddings.flat() was reached
    unsettledAtFlat |-> 0,        \* history: files and embedding calls pending at flat()
    payloads |-> 0,               \* history: embedding calls answered with a payload
    responses |-> <<>> ]          \* history: the responses returned

\* The request variables in a specification without indexing request.
PostUnused ==
  /\ post = [p \in Callers |-> NoRequest]
  /\ inserted = <<>>

Returned(p) == call[p].pc = "returned"
Threw(p) == call[p].pc = "threw"

\* A caller enters its function.
EntryPc(fn) ==
  CASE fn = "getMilvusClient" -> "has"
    [] fn = "createCollection" -> "has"
    [] fn = "searchVectors" -> "has"          \* const client = await getMilvusClient()
    [] fn = "zillizSearchVectors" -> "search"
    [] fn = "createIndexIfNeeded" -> "describe"
    [] fn = "insertVectors" -> "insertVectors"
    [] OTHER -> "idle"

Enter(p) ==
  /\ call[p].pc = "idle"
  /\ call[p].fn # "none"
  /\ call' = [call EXCEPT ![p] =
       [@ EXCEPT !.pc = EntryPc(call[p].fn),
                 !.existedAtCall = indexState # "absent",
                 !.collectionAtCall = IF EntryPc(call[p].fn) = "has"
                                        THEN collections[call[p].name] # 0 ELSE @,
                 !.after = { q \in Callers \ {p} :
                               /\ Returned(q)
                               /\ call[q].name = call[p].name
                               /\ call[q].dim = call[p].dim }]]
  /\ UNCHANGED <<runVars, storeVars, postVars>>

(***************************************************************************)
(* getMilvusClient (lib/milvus.ts) and ZillizClient.createCollection       *)
(***************************************************************************)
\* if (!hasCollection.value)
AlwaysCreate(value) == TRUE
NeverCreate(value) == FALSE
NeedsCreate(value) == ~value

\* Where a caller continues when the collection is ensured.
AfterEnsure(fn) == IF fn = "searchVectors" THEN "search" ELSE "returned"

\* The catch blocks: getMilvusClient rethrows the error, createCollection
\* wraps it.
EnsureError(fn, what) ==
  IF fn = "createCollection" THEN "Failed to create collection: " \o what ELSE what

\* await client.hasCollection(...): the store answers, or the call fails.
HasCollection(p) ==
  /\ call[p].pc = "has"
  /\ \/ /\ LET value == collections[call[p].name] # 0 IN
             call' = [call EXCEPT ![p] =
               [@ EXCEPT !.hasValue = IF value THEN "true" ELSE "false",
                         !.pc = IF NeedsCreate(value) THEN "create"
                                ELSE AfterEnsure(call[p].fn)]]
     \/ /\ call' = [call EXCEPT ![p] =
               [@ EXCEPT !.pc = "threw",
                         !.error = EnsureError(call[p].fn, "hasCollection failed")]]
  /\ UNCHANGED <<runVars, storeVars, postVars>>

\* await client.createCollection(...): the store creates the collection (a
\* request for a collection that exists meanwhile changes nothing), or the
\* call fails.
CreateCollection(p) ==
  /\ call[p].pc = "create"
  /\ \/ /\ collections' = IF collections[call[p].name] = 0
                            THEN [collections EXCEPT ![call[p].name] = call[p].dim]
                            ELSE collections
        /\ call' = [call EXCEPT ![p] =
               [@ EXCEPT !.creates = @ + 1, !.pc = AfterEnsure(call[p].fn)]]
     \/ /\ UNCHANGED collections
        /\ call' = [call EXCEPT ![p] =
               [@ EXCEPT !.creates = @ + 1, !.pc = "threw",
                         !.error = EnsureError(call[p].fn, "createCollection failed")]]
  /\ UNCHANGED <<runVars, indexState, storeHits, honoursFilter, postVars>>

RunnerUnused ==
  /\ items = <<>>
  /\ maxConcurrency = 1
  /\ i = 0
  /\ opState = <<>>
  /\ results = <<>>
  /\ pcRun = "done"
  /\ batches = <<>>
  /\ startCount = <<>>
  /\ overtook = FALSE

\* A stream call that was not made.
NoStream ==
  [ pc |-> "idle",
    ok |-> TRUE, hasBody |-> TRUE,     \* response.ok, response.body
    text |-> <<>>,                     \* the text of the response body
    pos |-> 0,                         \* how much of it the reader has returned
    buffer |-> <<>>,
    consumed |-> 0,                    \* history: how much was cut from the buffer's front
    cutInDelimiter |-> FALSE,          \* history: a chunk ended between the newlines of a '\n\n'
    calls |-> <<>> ]                   \* history: the callbacks called, in order
\* The chat component before it is mounted: the state of its useState calls,
\* with the greeting as the only message.
NoChat ==
  [ mounted |-> FALSE,                 \* the chatMessage listener is registered
    isTyping |-> FALSE,
    chatError |-> "null",
    messages |-> <<"ai">>,             \* the type of each message
    events |-> 0,                      \* history: the chatMessage events handled
    requests |-> <<>> ]                \* history: each chatWithCode call, in flight or its outcome

RunUnused ==
  /\ RunnerUnused
  /\ stream = NoStream
  /\ chat = NoChat

InitEnsure ==
  /\ RunUnused
  /\ PostUnused
  /\ collections \in [CollNames -> {0, MILVUS_DIM, 768}]
  /\ indexState = "absent"
  /\ storeHits = <<>>
  /\ honoursFilter = TRUE
  /\ call \in [Callers ->
                 { [Blank EXCEPT !.fn = "getMilvusClient"] }
                 \cup { [Blank EXCEPT !.fn = "createCollection", !.name = n, !.dim = d] :
                          n \in CollNames, d \in {MILVUS_DIM, 768} }]

NextEnsure ==
  \/ \E p \in Callers : Enter(p)
  \/ \E p \in Callers : HasCollection(p)
  \/ \E p \in Callers : CreateCollection(p)

SpecEnsure == InitEnsure /\ [][NextEnsure]_vars

(***************************************************************************)
(* searchVectors (lib/milvus.ts) and ZillizClient.searchVectors            *)
(***************************************************************************)
\* A hit is a record of the fields the gateways look at. A field holds the
\* JavaScript type of its value ("number", "string", "array") or "absent";
\* sessionId holds the session string itself when it is a string.
HitFields ==
  {"id", "content", "file_path", "filePath", "embedding", "sessionId", "score", "lineNumber"}

\* typeof value === 'string'
IsString(v) == v = "string" \/ v \in Sessions
IsNumber(v) == v = "number"
IsArray(v) == v = "array"

\* A row as lib/milvus.ts stores and reads it (file_path, embedding).
MilvusRow(s) ==
  [ id |-> "number", content |-> "string", file_path |-> "string", filePath |-> "absent",
    embedding |-> "array", sessionId |-> s, score |-> "number", lineNumber |-> "absent" ]
\* A row as ZillizClient stores and reads it (filePath, lineNumber).
ZillizRow(s, idType) ==
  [ id |-> idType, content |-> "string", file_path |-> "absent", filePath |-> "string",
    embedding |-> "absent", sessionId |-> s, score |-> "number", lineNumber |-> "number" ]

\* A hit that is null, a primitive or an object without any of the fields.
NoFields == [f \in HitFields |-> "absent"]

\* The hits the store may return: well-formed rows of every session, and
\* rows with one field missing or of another type.
HitPool ==
  { MilvusRow(s) : s \in Sessions }
  \cup { ZillizRow(s, "number") : s \in Sessions }
  \cup { ZillizRow("s1", "string") }
  \cup { [MilvusRow("s1") EXCEPT ![f] = "absent"] : f \in HitFields }
  \cup { [ZillizRow("s1", "number") EXCEPT ![f] = "absent"] : f \in HitFields }
  \cup { [MilvusRow("s2") EXCEPT !.sessionId = "number"] }
  \cup { NoFields }

\* filter: `sessionId == "${sessionId}"`
NoFilter(sessionId) == [field |-> "none", equals |-> ""]
SearchFilter(sessionId) == [field |-> "sessionId", equals |-> sessionId]

\* What the store returns for a search request: the ranked rows that match
\* the filter (all rows when the store does not apply it), at most limit.
StoreSearch(rows, filter, limit, honours) ==
  LET Match(h) == h[filter.field] = filter.equals
      kept == IF honours /\ filter.field \in HitFields THEN SelectSeq(rows, Match) ELSE rows
  IN SubSeq(kept, 1, Min(limit, Len(kept)))

\* A forEach body that pushes every hit.
KeepEveryHit(hit) == TRUE
\* The type guard of lib/milvus.ts searchVectors.
MilvusHitOk(hit) ==
  /\ IsNumber(hit.id)
  /\ IsString(hit.content)
  /\ IsString(hit.file_path)
  /\ IsArray(hit.embedding)
  /\ IsString(hit.sessionId)
\* results.push({...}) of lib/milvus.ts searchVectors.
MilvusResult(hit) ==
  [ id |-> hit.id, content |-> hit.content, file_path |-> hit.file_path,
    embedding |-> hit.embedding, sessionId |-> hit.sessionId, similarity |-> hit.score ]

\* The type guard of ZillizClient.searchVectors.
ZillizHitOk(item) ==
  /\ IsNumber(item.id) \/ IsString(item.id)
  /\ IsString(item.content)
  /\ IsString(item.filePath)
  /\ IsString(item.sessionId)
  /\ IsNumber(item.score)
  /\ IsNumber(item.lineNumber)
\* typeof hitItem.id === 'string' ? parseInt(hitItem.id) : hitItem.id
\* results.push({...}) of ZillizClient.searchVectors.
ZillizResult(item) ==
  [ id |-> (IF IsString(item.id) THEN "number" ELSE item.id), content |-> item.content, filePath |-> item.filePath,
    sessionId |-> item.sessionId, score |-> item.score, lineNumber |-> item.lineNumber ]

\* The forEach over searchResult.results[0].
RECURSIVE MilvusResults(_)
MilvusResults(hits) ==
  IF hits = <<>> THEN <<>>
  ELSE (IF MilvusHitOk(Head(hits)) THEN <<MilvusResult(Head(hits))>> ELSE <<>>)
       \o MilvusResults(Tail(hits))
RECURSIVE ZillizResults(_)
ZillizResults(hits) ==
  IF hits = <<>> THEN <<>>
  ELSE (IF ZillizHitOk(Head(hits)) THEN <<ZillizResult(Head(hits))>> ELSE <<>>)
       \o ZillizResults(Tail(hits))

\* client.search({... filter ...}) is sent.
SearchRequest(p) ==
  /\ call[p].pc = "search"
  /\ call' = [call EXCEPT ![p] =
       [@ EXCEPT !.sentFilter = SearchFilter(call[p].session), !.pc = "searching"]]
  /\ UNCHANGED <<runVars, storeVars, postVars>>

\* The catch blocks wrap the store's error.
\* The store replies and the hits are filtered by shape, or the call fails.
SearchReply(p) ==
  /\ call[p].pc = "searching"
  /\ \/ LET hits == StoreSearch(storeHits, call[p].sentFilter, call[p].limit, honoursFilter) IN
          call' = [call EXCEPT ![p] =
            [@ EXCEPT !.out = IF call[p].fn = "searchVectors"
                                THEN MilvusResults(hits) ELSE ZillizResults(hits),
                      !.replied = TRUE,
                      !.pc = "returned"]]
     \/ call' = [call EXCEPT ![p] =
            [@ EXCEPT !.pc = "threw", !.error = IF call[p].fn = "searchVectors"
                                                   THEN "Failed to search session data"
                                                   ELSE "Failed to search vectors"]]
  /\ UNCHANGED <<runVars, storeVars, postVars>>

\* One caller searches; the others run nothing. A store without the
\* collection holds no rows.
InitSearch ==
  /\ RunUnused
  /\ PostUnused
  /\ \E d \in {0, MILVUS_DIM} :
       collections = [n \in CollNames |-> IF n = COLLECTION_NAME THEN d ELSE 0]
  /\ indexState = "absent"
  /\ honoursFilter \in BOOLEAN
  /\ storeHits \in UNION { [1..k -> HitPool] : k \in 0..MaxHits }   \* at most MaxHits hits
  /\ collections[COLLECTION_NAME] = 0 => storeHits = <<>>
  /\ \E f \in {"searchVectors", "zillizSearchVectors"}, s \in Sessions, l \in 1..MaxHits :
       call = [p \in Callers |->
                 IF p = 1 THEN [Blank EXCEPT !.fn = f, !.session = s, !.limit = l] ELSE Blank]

NextSearch ==
  \/ \E p \in Callers : Enter(p)
  \/ \E p \in Callers : HasCollection(p)
  \/ \E p \in Callers : CreateCollection(p)
  \/ \E p \in Callers : SearchRequest(p)
  \/ \E p \in Callers : SearchReply(p)

SpecSearch == InitSearch /\ [][NextSearch]_vars

(***************************************************************************)
(* createIndexIfNeeded (app/api/index/route.ts)                            *)
(***************************************************************************)
MAX_INDEX_WAIT_TIME == 600000
POLLING_INTERVAL == 2000
MAX_RETRIES == 30
\* Math.min(pollInterval * 1.2, 10000)
MAX_POLL_INTERVAL == 10000
\* pollInterval is held in units of 1/TimeScale ms: with TimeScale = 5^6
\* every value POLLING_INTERVAL * 1.2^k below the cap is a whole number.
TimeScale == 15625

\* Math.min(128, Math.max(4, Math.ceil(totalEmbeddings / 2)))
NlistFloor(totalEmbeddings) == Min(128, Max(4, totalEmbeddings \div 2))
Nlist(totalEmbeddings) == Min(128, Max(4, (totalEmbeddings + 1) \div 2))

\* if (indexInfo && indexInfo.index_descriptions?.length > 0)
IndexNeverExists(indexInfo) == FALSE
IndexExistsOrUnknown(indexInfo) == indexInfo.isNull \/ indexInfo.descriptions > 0
IndexSeveralExist(indexInfo) == ~indexInfo.isNull /\ indexInfo.descriptions > 1
IndexAlreadyExists(indexInfo) == ~indexInfo.isNull /\ indexInfo.descriptions > 0

\* while (elapsedTime < MAX_INDEX_WAIT_TIME && retryCount < MAX_RETRIES)
PollConditionEither(elapsedTime, retryCount) ==
  elapsedTime[1] < MAX_INDEX_WAIT_TIME \/ retryCount < MAX_RETRIES
PollConditionTimeOnly(elapsedTime, retryCount) == elapsedTime[1] < MAX_INDEX_WAIT_TIME
PollCondition(elapsedTime, retryCount) ==
  elapsedTime[1] < MAX_INDEX_WAIT_TIME /\ retryCount < MAX_RETRIES

\* indexState === 'Finished' || indexState === 'IndexStateFinished'
IsFinished(state) == state = "Finished" \/ state = "IndexStateFinished"
\* indexState === 'Failed' || indexState === 'IndexStateFailed'
IsFailedShort(state) == state = "Failed"
IsFailed(state) == state = "Failed" \/ state = "IndexStateFailed"

\* elapsedTime += pollInterval
AddTime(elapsedTime, pollInterval) ==
  LET frac == elapsedTime[2] + (pollInterval % TimeScale) IN
    <<elapsedTime[1] + (pollInterval \div TimeScale) + (frac \div TimeScale), frac % TimeScale>>
\* pollInterval = Math.min(pollInterval * 1.2, 10000)
NextIntervalNoCap(pollInterval) == (pollInterval * 6) \div 5
NextInterval(pollInterval) == Min((pollInterval * 6) \div 5, MAX_POLL_INTERVAL * TimeScale)
\* setTimeout(resolve, pollInterval): the delay is cut to whole milliseconds.
TimerMs(pollInterval) == pollInterval \div TimeScale

\* await milvusClient.describeIndex(...).catch(() => null), then the
\* existence check.
DescribeIndex(p) ==
  /\ call[p].pc = "describe"
  /\ \E failed \in BOOLEAN :
       LET info == IF failed THEN [isNull |-> TRUE, descriptions |-> 0]
                   ELSE [isNull |-> FALSE,
                         descriptions |-> IF indexState = "absent" THEN 0 ELSE 1]
       IN call' = [call EXCEPT ![p] =
            [@ EXCEPT !.indexInfo = info,
                      !.describeFound = ~failed /\ indexState # "absent",
                      !.pc = IF IndexAlreadyExists(info) THEN "returned" ELSE "createIndex"]]
  /\ UNCHANGED <<runVars, storeVars, postVars>>

\* await milvusClient.createIndex(...): the store starts to build the index
\* (a request for an index that exists changes nothing), or the call fails.
CreateIndex(p) ==
  /\ call[p].pc = "createIndex"
  /\ \/ /\ indexState' = IF indexState = "absent" THEN "building" ELSE indexState
        /\ call' = [call EXCEPT ![p] =
             [@ EXCEPT !.createIndexCalls = @ + 1,
                       !.nlist = Nlist(call[p].total),
                       !.elapsedTime = <<0, 0>>,
                       !.pollInterval = POLLING_INTERVAL * TimeScale,
                       !.retryCount = 0,
                       !.wall = 0,
                       !.buildingRun = TRUE,
                       !.pc = "loop"]]
     \/ /\ UNCHANGED indexState
        /\ call' = [call EXCEPT ![p] =
             [@ EXCEPT !.createIndexCalls = @ + 1,
                       !.nlist = Nlist(call[p].total),
                       !.pc = "threw",
                       !.error = "createIndex failed"]]
  /\ UNCHANGED <<runVars, collections, storeHits, honoursFilter, postVars>>

\* The while condition: send the next getIndexState request, or leave the
\* loop and throw the timeout error.
PollOrTimeout(p) ==
  /\ call[p].pc = "loop"
  /\ IF PollCondition(call[p].elapsedTime, call[p].retryCount)
       THEN call' = [call EXCEPT ![p] =
              [@ EXCEPT !.polls = @ + 1, !.lastPollWall = call[p].wall, !.pc = "getState"]]
       ELSE call' = [call EXCEPT ![p] =
              [@ EXCEPT !.pc = "threw", !.error = "Index creation timed out"]]
  /\ UNCHANGED <<runVars, storeVars, postVars>>

\* The names under which the store reports the state of an index.
\* The getIndexState reply arrives after d ms: return on a finished state,
\* throw on a failed one, else go to sleep; or the call fails.
GetIndexStateReply(p, d) ==
  /\ call[p].pc = "getState"
  /\ \/ \E state \in (CASE indexState = "finished" -> {"Finished", "IndexStateFinished"}
                            [] indexState = "failed" -> {"Failed", "IndexStateFailed"}
                            [] indexState = "building" -> {"InProgress", "IndexStateInProgress"}
                            [] OTHER -> {}) :
          call' = [call EXCEPT ![p] =
            [@ EXCEPT !.wall = @ + d,
                      !.buildingRun = @ /\ indexState = "building",
                      !.sawFailed = indexState = "failed",
                      !.pollsAtFailed = call[p].polls,
                      !.sleepsAtFailed = call[p].sleeps,
                      !.error = IF ~IsFinished(state) /\ IsFailed(state)
                                  THEN "Index creation failed" ELSE @,
                      !.pc = IF IsFinished(state) THEN "returned"
                             ELSE IF IsFailed(state) THEN "threw"
                             ELSE "sleep"]]
     \/ call' = [call EXCEPT ![p] =
            [@ EXCEPT !.wall = @ + d,
                      !.buildingRun = FALSE,
                      !.pc = "threw",
                      !.error = "getIndexState failed"]]
  /\ UNCHANGED <<runVars, storeVars, postVars>>

\* The timer fires: the bookkeeping after the sleep.
Sleep(p) ==
  /\ call[p].pc = "sleep"
  /\ call' = [call EXCEPT ![p] =
       [@ EXCEPT !.wall = @ + TimerMs(call[p].pollInterval),
                 !.sleptMs = @ + TimerMs(call[p].pollInterval),
                 !.prevInterval = call[p].pollInterval,
                 !.elapsedTime = AddTime(@, call[p].pollInterval),
                 !.pollInterval = NextInterval(@),
                 !.retryCount = @ + 1,
                 !.sleeps = @ + 1,
                 !.pc = "loop"]]
  /\ UNCHANGED <<runVars, storeVars, postVars>>

\* The store finishes or fails the build of the index.
StoreIndexProgress ==
  /\ indexState = "building"
  /\ indexState' \in {"finished", "failed"}
  /\ UNCHANGED <<runVars, collections, storeHits, honoursFilter, call, postVars>>

\* One caller runs createIndexIfNeeded on the collection, whose index may be
\* in any state.
InitIndex ==
  /\ RunUnused
  /\ PostUnused
  /\ collections = [n \in CollNames |-> IF n = COLLECTION_NAME THEN MILVUS_DIM ELSE 0]
  /\ indexState \in {"absent", "building", "finished", "failed"}
  /\ storeHits = <<>>
  /\ honoursFilter = TRUE
  /\ \E t \in 1..MaxTotal :
       call = [p \in Callers |->
                 IF p = 1 THEN [Blank EXCEPT !.fn = "createIndexIfNeeded", !.total = t]
                 ELSE Blank]

NextIndex ==
  \/ \E p \in Callers : Enter(p)
  \/ \E p \in Callers : DescribeIndex(p)
  \/ \E p \in Callers : CreateIndex(p)
  \/ \E p \in Callers : PollOrTimeout(p)
  \/ \E p \in Callers, d \in {0, SlowReply} : GetIndexStateReply(p, d)
  \/ \E p \in Callers : Sleep(p)
  \/ StoreIndexProgress

SpecIndex == InitIndex /\ [][NextIndex]_vars

\* One caller runs createIndexIfNeeded for any number of vectors on a
\* collection without index, up to the createIndex request.
InitNlist ==
  /\ RunUnused
  /\ PostUnused
  /\ collections = [n \in CollNames |-> IF n = COLLECTION_NAME THEN MILVUS_DIM ELSE 0]
  /\ indexState = "absent"
  /\ storeHits = <<>>
  /\ honoursFilter = TRUE
  /\ \E t \in 1..MaxVectors :
       call = [p \in Callers |->
                 IF p = 1 THEN [Blank EXCEPT !.fn = "createIndexIfNeeded", !.total = t]
                 ELSE Blank]

NextNlist ==
  \/ \E p \in Callers : Enter(p)
  \/ \E p \in Callers : DescribeIndex(p)
  \/ \E p \in Callers : CreateIndex(p)

SpecNlist == InitNlist /\ [][NextNlist]_vars

(***************************************************************************)
(* processConcurrently                                                     *)
(***************************************************************************)
\* The value a processor call fulfils with for an item.
ValueOf(item) == [value |-> item]

\* items.slice(i, i + maxConcurrency), as the set of 1-based positions.
SliceShort(its, from, mc) == { k \in 1..Len(its) : from < k /\ k < from + mc }
SliceWide(its, from, mc) == { k \in 1..Len(its) : from < k /\ k <= from + mc + 1 }
Slice(its, from, mc) == { k \in 1..Len(its) : from < k /\ k <= from + mc }

\* Promise.race: settles as soon as one promise has settled.
PromiseRace(sts, batch) ==
  IF \E k \in batch : sts[k] \in {"fulfilled", "rejected"} THEN "settled" ELSE "pending"
\* Promise.all: rejects as soon as one promise rejects.
PromiseAll(sts, batch) ==
  IF \E k \in batch : sts[k] = "rejected" THEN "rejected"
  ELSE IF \A k \in batch : sts[k] = "fulfilled" THEN "settled"
  ELSE "pending"
\* Promise.allSettled: fulfils once every promise of the batch has settled,
\* never rejects.
PromiseAllSettled(sts, batch) ==
  IF \A k \in batch : sts[k] \in {"fulfilled", "rejected"} THEN "settled" ELSE "pending"

\* The loop over batchResults: push the value of every fulfilled entry, in
\* batch order.
RECURSIVE ExtractAll(_, _, _, _)
ExtractAll(its, sts, from, to) ==
  IF from > to THEN <<>>
  ELSE <<ValueOf(its[from])>> \o ExtractAll(its, sts, from + 1, to)
\* The same values pushed from the end of the batch to its start.
RECURSIVE ExtractReversed(_, _, _, _)
ExtractReversed(its, sts, from, to) ==
  IF from > to THEN <<>>
  ELSE ExtractReversed(its, sts, from + 1, to)
       \o (IF sts[from] = "fulfilled" THEN <<ValueOf(its[from])>> ELSE <<>>)
RECURSIVE ExtractFulfilled(_, _, _, _)
ExtractFulfilled(its, sts, from, to) ==
  IF from > to THEN <<>>
  ELSE (IF sts[from] = "fulfilled" THEN <<ValueOf(its[from])>> ELSE <<>>)
       \o ExtractFulfilled(its, sts, from + 1, to)

\* The positions of the batch the loop is at.
CurrentBatch == Slice(items, i, maxConcurrency)

InitRun ==
  /\ \E n \in 0..MaxItems : items = [k \in 1..n |-> k]
  /\ maxConcurrency \in 1..MaxConc
  /\ i = 0
  /\ opState = [k \in 1..Len(items) |-> "idle"]
  /\ results = <<>>
  /\ pcRun = "loop"
  /\ batches = <<>>
  /\ startCount = [k \in 1..Len(items) |-> 0]
  /\ overtook = FALSE
  /\ stream = NoStream
  /\ chat = NoChat
  /\ StoreUnused
  /\ PostUnused
  /\ call = [p \in Callers |-> Blank]

\* for-condition true: batch.map(processor) calls processor on every item of
\* the slice, synchronously, then the function awaits Promise.allSettled.
StartBatch ==
  /\ pcRun = "loop"
  /\ i < Len(items)
  /\ opState' = [k \in 1..Len(items) |-> IF k \in CurrentBatch THEN "running" ELSE opState[k]]
  /\ startCount' = [k \in 1..Len(items) |->
                      IF k \in CurrentBatch THEN startCount[k] + 1 ELSE startCount[k]]
  /\ batches' = Append(batches, CurrentBatch)
  /\ pcRun' = "await"
  /\ UNCHANGED <<items, maxConcurrency, i, results, overtook, clientVars, storeVars, call, postVars>>

\* The environment: one running processor call settles.
Settle(k, outcome) ==
  /\ opState[k] = "running"
  /\ opState' = [opState EXCEPT ![k] = outcome]
  /\ overtook' = (overtook \/ (outcome = "fulfilled" /\ \E j \in 1..(k - 1) : opState[j] = "running"))
  /\ UNCHANGED <<items, maxConcurrency, i, results, pcRun, batches, startCount, clientVars, storeVars,
                 call, postVars>>

\* The await resumes: collect the batch's values and advance i.
CollectBatch ==
  /\ pcRun = "await"
  /\ LET out == PromiseAllSettled(opState, CurrentBatch) IN
       /\ out # "pending"
       /\ IF out = "rejected"
            THEN /\ pcRun' = "rejected"
                 /\ UNCHANGED <<i, results>>
            ELSE /\ results' = results \o ExtractFulfilled(items, opState, i + 1,
                                                          Min(i + maxConcurrency, Len(items)))
                 /\ i' = i + maxConcurrency
                 /\ pcRun' = "loop"
  /\ UNCHANGED <<items, maxConcurrency, opState, batches, startCount, overtook, clientVars, storeVars,
                 call, postVars>>

\* for-condition false: return results.
ReturnResults ==
  /\ pcRun = "loop"
  /\ i >= Len(items)
  /\ pcRun' = "done"
  /\ UNCHANGED <<items, maxConcurrency, i, opState, results, batches, startCount, overtook,
                 clientVars, storeVars, call, postVars>>

NextRun ==
  \/ StartBatch
  \/ \E k \in 1..Len(items) : Settle(k, "fulfilled")
  \/ \E k \in 1..Len(items) : Settle(k, "rejected")
  \/ CollectBatch
  \/ ReturnResults

SpecRun == InitRun /\ [][NextRun]_vars

\* The runner's own steps are taken when they can be (the event loop resumes
\* a function whose awaited promise has settled), and every started
\* processor call settles.
FairRun ==
  /\ WF_vars(StartBatch \/ CollectBatch \/ ReturnResults)
  /\ \A k \in 1..MaxItems :
       WF_vars(k <= Len(items) /\ (Settle(k, "fulfilled") \/ Settle(k, "rejected")))

SpecRunFair == InitRun /\ [][NextRun]_vars /\ FairRun

(***************************************************************************)
(* POST (app/api/index/route.ts) with processCodeFileContent and           *)
(* processChunk; ZillizClient.insertVectors                                *)
(***************************************************************************)
MAX_CONCURRENT_FILES == 5
MAX_CONCURRENT_EMBEDDINGS == 10
\* the batch size of the insert loop
INSERT_BATCH == 1000

PathOf(f) == "file" \o ToString(f)
ContentOf(f, k) == PathOf(f) \o ":" \o ToString(k)
\* The embedding service: the vector it computes for a text.
EmbeddingOf(content) == <<"vector of", content>>

\* A FileNode, with what CodeChunker.generateChunks does on its content:
\* it returns n chunks, or throws (n = -1).
FileNode(f, n) ==
  [ path |-> PathOf(f),
    chunkerThrows |-> n < 0,
    chunks |-> [k \in 1..n |-> ContentOf(f, k)] ]

RECURSIVE TotalChunks(_, _)
TotalChunks(c, m) == IF m = 0 THEN 0 ELSE Max(c[m], 0) + TotalChunks(c, m - 1)

\* The codeFiles arrays of at most maxFiles files and maxChunks chunks.
CodeFilesArrays(maxFiles, maxChunks) ==
  UNION { { [f \in 1..m |-> FileNode(f, c[f])] :
              c \in { c \in [1..m -> -1..maxChunks] : TotalChunks(c, m) <= maxChunks } } :
          m \in 0..maxFiles }

\* An indexing request that has arrived.
Request(body) == [NoRequest EXCEPT !.pc = "json", !.body = body]

\* if (!sessionId || !codeFiles || !Array.isArray(codeFiles))
AcceptsAll(body) == FALSE
InvalidBody(body) == body.sessionId = "" \/ body.codeFilesKind # "array"

\* The bodies of the responses, as NextResponse.json serialises them: keys
\* whose value is undefined are left out.
InvalidRequestResponse ==
  [ status |-> 400, keys |-> {"error", "details"},
    success |-> "undefined", message |-> "undefined", totalChunks |-> <<>> ]
NoEmbeddingsResponse ==
  [ status |-> 400, keys |-> {"message", "details", "processingTime"},
    success |-> "undefined", message |-> "No embeddings could be generated",
    totalChunks |-> <<>> ]
SuccessCountsFiles(embeddingsToInsert) ==
  [ status |-> 200,
    keys |-> {"success", "message", "totalChunks", "processingTime", "indexingTime"},
    success |-> "true", message |-> "Codebase indexed successfully.",
    totalChunks |->
      <<Cardinality({ embeddingsToInsert[j].file_path : j \in DOMAIN embeddingsToInsert })>> ]
SuccessResponse(embeddingsToInsert) ==
  [ status |-> 200,
    keys |-> {"success", "message", "totalChunks", "processingTime", "indexingTime"},
    success |-> "true", message |-> "Codebase indexed successfully.",
    totalChunks |-> <<Len(embeddingsToInsert)>> ]
ErrorResponse(message, development) ==
  [ status |-> 500,
    keys |-> {"success", "message"} \cup (IF development THEN {"error"} ELSE {}),
    success |-> "false", message |-> message, totalChunks |-> <<>> ]

\* return NextResponse.json(...): the handler ends with the response.
RespondAndGoOn(req, response) ==
  [req EXCEPT !.responses = Append(@, response)]
Respond(req, response) ==
  [req EXCEPT !.responses = Append(@, response), !.pc = "done"]

\* const { sessionId, codeFiles } = await req.json(), the validation, and
\* the entry of processConcurrently over the files.
ParseAndValidate(p) ==
  /\ post[p].pc = "json"
  /\ LET body == post[p].body
         n == Len(body.codeFiles) IN
       IF body.kind = "malformed"
         THEN \E development \in BOOLEAN :
                post' = [post EXCEPT ![p] =
                           Respond(@, ErrorResponse("Unexpected token", development))]
       ELSE IF InvalidBody(body)
         THEN post' = [post EXCEPT ![p] = Respond(@, InvalidRequestResponse)]
       ELSE post' = [post EXCEPT ![p] =
              [@ EXCEPT !.pc = "files",
                        !.i = 0,
                        !.fileState = [f \in 1..n |-> "idle"],
                        !.fileValue = [f \in 1..n |-> <<>>],
                        !.chunkI = [f \in 1..n |-> 0],
                        !.chunkState = [f \in 1..n |->
                                          [k \in 1..Len(body.codeFiles[f].chunks) |-> "idle"]],
                        !.chunkResults = [f \in 1..n |-> <<>>],
                        !.embedCalls = [f \in 1..n |->
                                          [k \in 1..Len(body.codeFiles[f].chunks) |-> 0]]]]
  /\ UNCHANGED <<runVars, storeVars, call, inserted>>

\* The files of the batch the file runner is at.
FileBatch(req) == Slice(req.body.codeFiles, req.i, MAX_CONCURRENT_FILES)

\* for-condition true: batch.map calls processCodeFileContent on every file
\* of the slice; each call runs up to its await of the chunker.
StartFileBatch(p) ==
  /\ post[p].pc = "files"
  /\ post[p].i < Len(post[p].body.codeFiles)
  /\ post' = [post EXCEPT ![p] =
       [@ EXCEPT !.fileState = [f \in DOMAIN @ |->
                                  IF f \in FileBatch(post[p]) THEN "chunking" ELSE @[f]],
                 !.pc = "filesAwait"]]
  /\ UNCHANGED <<runVars, storeVars, call, inserted>>

\* The chunks of the batch the chunk runner of file f is at, from index from.
ChunkBatchAll(req, f, from) == { k \in DOMAIN req.body.codeFiles[f].chunks : from < k }
ChunkBatch(req, f, from) ==
  Slice(req.body.codeFiles[f].chunks, from, MAX_CONCURRENT_EMBEDDINGS)

\* batch.map(processChunk): one generateEmbeddings call per chunk of the slice.
StartChunks(req, f, from) ==
  [req EXCEPT !.chunkI[f] = from,
              !.chunkState[f] = [k \in DOMAIN @ |->
                                   IF k \in ChunkBatch(req, f, from) THEN "running" ELSE @[k]],
              !.embedCalls[f] = [k \in DOMAIN @ |->
                                   IF k \in ChunkBatch(req, f, from) THEN @[k] + 1 ELSE @[k]]]

\* The catch block of processCodeFileContent: the file returns [].
Escalate(req, f) == Respond(req, ErrorResponse("chunker failed", FALSE))
CatchInFile(req, f) == [req EXCEPT !.fileState[f] = "fulfilled", !.fileValue[f] = <<>>]

\* The chunker settles: on a throw or on zero chunks the file returns [],
\* else the chunk runner starts its first batch.
ChunkerReply(p, f) ==
  /\ post[p].pc = "filesAwait"
  /\ post[p].fileState[f] = "chunking"
  /\ LET file == post[p].body.codeFiles[f] IN
       IF file.chunkerThrows
         THEN post' = [post EXCEPT ![p] = CatchInFile(@, f)]
       ELSE IF Len(file.chunks) = 0
         THEN post' = [post EXCEPT ![p] =
                [@ EXCEPT !.fileState[f] = "fulfilled", !.fileValue[f] = <<>>]]
         ELSE post' = [post EXCEPT ![p] =
                StartChunks([@ EXCEPT !.fileState[f] = "embedding"], f, 0)]
  /\ UNCHANGED <<runVars, storeVars, call, inserted>>

\* The embedding service answers the call for chunk k of file f: a payload
\* with the vector of the text it was sent, an empty payload, or an error.
EmbedReply(p, f, k, outcome) ==
  /\ post[p].pc = "filesAwait"
  /\ post[p].chunkState[f][k] = "running"
  /\ post' = [post EXCEPT ![p] =
       [@ EXCEPT !.chunkState[f][k] = outcome,
                 !.payloads = IF outcome = "ok" THEN @ + 1 ELSE @]]
  /\ UNCHANGED <<runVars, storeVars, call, inserted>>

\* The record processChunk builds from a chunk and the payload of its call.
ChunkRecordFirstFile(files, f, k, sessionId) ==
  [ content |-> files[f].chunks[k],
    file_path |-> files[1].path,
    embedding |-> EmbeddingOf(files[f].chunks[k]),
    sessionId |-> sessionId ]
ChunkRecord(files, f, k, sessionId) ==
  [ content |-> files[f].chunks[k],
    file_path |-> files[f].path,
    embedding |-> EmbeddingOf(files[f].chunks[k]),
    sessionId |-> sessionId ]

\* if (embeddingResponse.data && embeddingResponse.data.length > 0)
HasPayloadOrEmpty(outcome) == outcome \in {"ok", "empty"}
HasPayload(outcome) == outcome = "ok"

\* What processChunk fulfils with: <<record>>, or <<>> for null. Its catch
\* turns a failed call into null, so no processChunk promise rejects.
ProcessChunk(req, f, k) ==
  IF HasPayload(req.chunkState[f][k])
    THEN <<ChunkRecord(req.body.codeFiles, f, k, req.body.sessionId)>>
    ELSE <<>>

\* The values of the chunks from..to, in batch order.
RECURSIVE ChunkValues(_, _, _, _)
ChunkValues(req, f, from, to) ==
  IF from > to THEN <<>>
  ELSE <<ProcessChunk(req, f, from)>> \o ChunkValues(req, f, from + 1, to)

\* results.filter(result => result !== null), and Array.prototype.flat: both
\* concatenate here, null being <<>> and a record r being <<r>>.
RECURSIVE NonNull(_)
NonNull(values) == IF values = <<>> THEN <<>> ELSE Head(values) \o NonNull(Tail(values))
RECURSIVE FlatOf(_)
FlatOf(arrays) == IF arrays = <<>> THEN <<>> ELSE Head(arrays) \o FlatOf(Tail(arrays))

\* The await of the chunk runner of file f resumes: push the batch's values,
\* then start the next batch, or filter the nulls and return the records.
ChunkBatchDone(p, f) ==
  /\ post[p].pc = "filesAwait"
  /\ post[p].fileState[f] = "embedding"
  /\ LET req == post[p]
         chunks == req.body.codeFiles[f].chunks
         from == req.chunkI[f]
         promises == [k \in DOMAIN chunks |->
                       IF req.chunkState[f][k] \in {"ok", "empty", "error"}
                         THEN "fulfilled" ELSE req.chunkState[f][k]]
         pushed == req.chunkResults[f]
                     \o ChunkValues(req, f, from + 1,
                                    Min(from + MAX_CONCURRENT_EMBEDDINGS, Len(chunks)))
         next == from + MAX_CONCURRENT_EMBEDDINGS
     IN /\ PromiseAllSettled(promises, ChunkBatch(req, f, from)) = "settled"
        /\ IF next < Len(chunks)
             THEN post' = [post EXCEPT ![p] =
                    StartChunks([@ EXCEPT !.chunkResults[f] = pushed], f, next)]
             ELSE post' = [post EXCEPT ![p] =
                    [@ EXCEPT !.chunkResults[f] = pushed,
                              !.chunkI[f] = next,
                              !.fileValue[f] = NonNull(pushed),
                              !.fileState[f] = "fulfilled"]]
  /\ UNCHANGED <<runVars, storeVars, call, inserted>>

\* The values of the files from..to, in batch order.
RECURSIVE FileValues(_, _, _)
FileValues(req, from, to) ==
  IF from > to THEN <<>>
  ELSE <<req.fileValue[from]>> \o FileValues(req, from + 1, to)

\* The await of the file runner resumes: processCodeFileContent catches
\* every error, so every promise of the batch is fulfilled.
FileBatchDone(p) ==
  /\ post[p].pc = "filesAwait"
  /\ LET req == post[p]
         promises == [f \in DOMAIN req.fileState |->
                        IF req.fileState[f] = "fulfilled" THEN "fulfilled" ELSE "running"]
     IN /\ PromiseAllSettled(promises, FileBatch(req)) = "settled"
        /\ post' = [post EXCEPT ![p] =
             [@ EXCEPT !.allEmbeddings =
                         @ \o FileValues(req, req.i + 1,
                                         Min(req.i + MAX_CONCURRENT_FILES,
                                             Len(req.body.codeFiles))),
                       !.i = @ + MAX_CONCURRENT_FILES,
                       !.pc = "files"]]
  /\ UNCHANGED <<runVars, storeVars, call, inserted>>

\* The files still in processCodeFileContent and the embedding calls still
\* in flight.
CallsInFlight(req, f) == { k \in DOMAIN req.chunkState[f] : req.chunkState[f][k] = "running" }
Processing(req) ==
  { f \in DOMAIN req.fileState : req.fileState[f] \in {"chunking", "embedding"} }
AllInFlight(req) ==
  UNION { { <<f, k>> : k \in CallsInFlight(req, f) } : f \in DOMAIN req.chunkState }
Unsettled(req) == Cardinality(Processing(req)) + Cardinality(AllInFlight(req))

\* if (embeddingsToInsert.length === 0)
NeverEmpty(embeddingsToInsert) == FALSE
NothingToIndex(embeddingsToInsert) == Len(embeddingsToInsert) = 0

\* for-condition false: the file runner returns; allEmbeddings.flat(), the
\* empty check, and the call of getMilvusClient. The locals of the file
\* phase are out of scope from here on.
FlatAndCheck(p) ==
  /\ post[p].pc = "files"
  /\ post[p].i >= Len(post[p].body.codeFiles)
  /\ LET flat == FlatOf(post[p].allEmbeddings)
         req == [post[p] EXCEPT !.embeddingsToInsert = flat,
                                !.flatDone = TRUE,
                                !.unsettledAtFlat = Unsettled(post[p]),
                                !.fileState = <<>>, !.fileValue = <<>>,
                                !.chunkI = <<>>, !.chunkState = <<>>,
                                !.chunkResults = <<>>, !.embedCalls = <<>>]
     IN IF NothingToIndex(flat)
          THEN /\ post' = [post EXCEPT ![p] = Respond(req, NoEmbeddingsResponse)]
               /\ UNCHANGED call
          ELSE /\ post' = [post EXCEPT ![p] = [req EXCEPT !.pc = "client"]]
               /\ call' = [call EXCEPT ![p] =
                    [@ EXCEPT !.fn = "getMilvusClient", !.pc = "idle"]]
  /\ UNCHANGED <<runVars, storeVars, inserted>>

\* The store's insert: the rows are added to those of the collection.
StoreReplace(stored, data) == data
StoreAppend(stored, data) == stored \o data

\* The records of one insert request: slice(i, i + 1000) inside the loop,
\* the whole array when it has at most 1000 records.
BatchEnd(embeddingsToInsert, from) ==
  IF Len(embeddingsToInsert) > INSERT_BATCH
    THEN Min(from + INSERT_BATCH, Len(embeddingsToInsert))
    ELSE Len(embeddingsToInsert)

\* await milvusClient.insert(...): the store appends the batch and the loop
\* goes on, after the last batch with the call of createIndexIfNeeded; or
\* the insert fails and the catch block answers.
InsertBatch(p) ==
  /\ \/ post[p].pc = "client" /\ Returned(p)
     \/ post[p].pc = "insert"
  /\ LET req == post[p]
         all == req.embeddingsToInsert
         from == req.insertI
         to == BatchEnd(all, from)
         sent == [req EXCEPT !.insertReqs = Append(@, [from |-> from + 1, to |-> to])]
     IN \/ /\ collections[COLLECTION_NAME] # 0
           /\ inserted' = StoreAppend(inserted, SubSeq(all, from + 1, to))
           /\ IF to < Len(all)
                THEN /\ post' = [post EXCEPT ![p] =
                          [sent EXCEPT !.insertI = from + INSERT_BATCH, !.pc = "insert"]]
                     /\ UNCHANGED call
                ELSE /\ post' = [post EXCEPT ![p] =
                          [sent EXCEPT !.insertI = from + INSERT_BATCH, !.pc = "index"]]
                     /\ call' = [call EXCEPT ![p] =
                          [@ EXCEPT !.fn = "createIndexIfNeeded",
                                    !.total = Len(all),
                                    !.pc = "idle"]]
        \/ /\ \E development \in BOOLEAN :
                post' = [post EXCEPT ![p] =
                           Respond(sent, ErrorResponse("insert failed", development))]
           /\ UNCHANGED <<inserted, call>>
  /\ UNCHANGED <<runVars, storeVars>>

\* createIndexIfNeeded returned: the success response.
IndexReturned(p) ==
  /\ post[p].pc = "index"
  /\ Returned(p)
  /\ post' = [post EXCEPT ![p] = Respond(@, SuccessResponse(post[p].embeddingsToInsert))]
  /\ UNCHANGED <<runVars, storeVars, call, inserted>>

\* getMilvusClient or createIndexIfNeeded threw: the catch block answers.
StoreThrew(p) ==
  /\ post[p].pc \in {"client", "index"}
  /\ Threw(p)
  /\ \E development \in BOOLEAN :
       post' = [post EXCEPT ![p] = Respond(@, ErrorResponse(call[p].error, development))]
  /\ UNCHANGED <<runVars, storeVars, call, inserted>>

\* ZillizClient.insertVectors: the rows it sends for its data.
FormattedData(data) ==
  [k \in DOMAIN data |->
     [ vector |-> data[k].embedding, content |-> data[k].content,
       filePath |-> data[k].filePath, sessionId |-> data[k].sessionId,
       lineNumber |-> data[k].lineNumber ]]

\* ZillizClient.insertVectors: one insert request with all the rows; an
\* error is wrapped and rethrown.
InsertVectors(p) ==
  /\ call[p].pc = "insertVectors"
  /\ LET data == post[p].data IN
       /\ post' = [post EXCEPT ![p] =
            [@ EXCEPT !.insertReqs = Append(@, [from |-> 1, to |-> Len(data)])]]
       /\ \/ /\ collections[COLLECTION_NAME] # 0
             /\ inserted' = StoreAppend(inserted, FormattedData(data))
             /\ call' = [call EXCEPT ![p] = [@ EXCEPT !.pc = "returned"]]
          \/ /\ UNCHANGED inserted
             /\ call' = [call EXCEPT ![p] =
                  [@ EXCEPT !.pc = "threw",
                            !.error = "Failed to insert vectors: insert failed"]]
  /\ UNCHANGED <<runVars, storeVars>>

\* The store steps of an indexing request: getMilvusClient, the inserts,
\* createIndexIfNeeded (its getIndexState replies arrive at once), and the
\* response.
StoreStep(p) ==
  \/ Enter(p)
  \/ HasCollection(p)
  \/ CreateCollection(p)
  \/ InsertBatch(p)
  \/ DescribeIndex(p)
  \/ CreateIndex(p)
  \/ PollOrTimeout(p)
  \/ GetIndexStateReply(p, 0)
  \/ Sleep(p)
  \/ IndexReturned(p)
  \/ StoreThrew(p)

\* The steps of an indexing request before its first store call.
FileStep(p) ==
  \/ ParseAndValidate(p)
  \/ StartFileBatch(p)
  \/ \E f \in DOMAIN post[p].fileState : ChunkerReply(p, f)
  \/ \E f \in DOMAIN post[p].chunkState :
       \E k \in DOMAIN post[p].chunkState[f] :
         \E outcome \in {"ok", "empty", "error"} : EmbedReply(p, f, k, outcome)
  \/ \E f \in DOMAIN post[p].fileState : ChunkBatchDone(p, f)
  \/ FileBatchDone(p)
  \/ FlatAndCheck(p)

\* The request bodies: not JSON, or an object whose sessionId is a string or
\* missing ("") and whose codeFiles is an array, missing or something else.
\* One indexing request of session s1, any body, on an empty store or on
\* one that has the collection and its finished index.
InitPost ==
  /\ RunUnused
  /\ \E d \in {0, MILVUS_DIM} :
       /\ collections = [n \in CollNames |-> IF n = COLLECTION_NAME THEN d ELSE 0]
       /\ indexState = IF d = 0 THEN "absent" ELSE "finished"
  /\ storeHits = <<>>
  /\ honoursFilter = TRUE
  /\ call = [p \in Callers |-> Blank]
  /\ inserted = <<>>
  /\ \E body \in
         { [kind |-> "malformed", sessionId |-> "", codeFilesKind |-> "missing", codeFiles |-> <<>>] }
         \cup { [kind |-> "object", sessionId |-> s, codeFilesKind |-> k, codeFiles |-> <<>>] :
                  s \in {"s1", ""}, k \in {"missing", "notArray"} }
         \cup { [kind |-> "object", sessionId |-> s, codeFilesKind |-> "array", codeFiles |-> a] :
                  s \in {"s1", ""}, a \in CodeFilesArrays(MaxFiles, MaxChunks) } :
       post = [p \in Callers |-> IF p = 1 THEN Request(body) ELSE NoRequest]

NextPost ==
  \/ \E p \in Callers : FileStep(p)
  \/ \E p \in Callers : StoreStep(p)
  \/ StoreIndexProgress

SpecPost == InitPost /\ [][NextPost]_vars

\* Two indexing requests with different session ids and one file each, on a
\* store that has the collection and its finished index.
InitPair ==
  /\ RunUnused
  /\ collections = [n \in CollNames |-> IF n = COLLECTION_NAME THEN MILVUS_DIM ELSE 0]
  /\ indexState = "finished"
  /\ storeHits = <<>>
  /\ honoursFilter = TRUE
  /\ call = [p \in Callers |-> Blank]
  /\ inserted = <<>>
  /\ \E a1, a2 \in CodeFilesArrays(1, PairChunks) :
       post = [p \in Callers |->
                 IF p = 1 THEN Request([kind |-> "object", sessionId |-> "s1",
                                        codeFilesKind |-> "array", codeFiles |-> a1])
                 ELSE IF p = 2 THEN Request([kind |-> "object", sessionId |-> "s2",
                                             codeFilesKind |-> "array", codeFiles |-> a2])
                 ELSE NoRequest]

\* With the collection and a finished index in the store no request asks
\* for createCollection and no poll is followed by a sleep: the steps left.
NextPair ==
  \/ \E p \in Callers : FileStep(p)
  \/ \E p \in Callers : Enter(p)
  \/ \E p \in Callers : HasCollection(p)
  \/ \E p \in Callers : InsertBatch(p)
  \/ \E p \in Callers : DescribeIndex(p)
  \/ \E p \in Callers : CreateIndex(p)
  \/ \E p \in Callers : PollOrTimeout(p)
  \/ \E p \in Callers : GetIndexStateReply(p, 0)
  \/ \E p \in Callers : IndexReturned(p)
  \/ \E p \in Callers : StoreThrew(p)

SpecPair == InitPair /\ [][NextPair]_vars

\* The codeFiles arrays of more files than the file ceiling: at most one
\* file whose chunker throws, the others with one chunk or none.
\* One indexing request with more files than the file ceiling, on a store
\* that has the collection and its finished index.
InitFiles ==
  /\ RunUnused
  /\ collections = [n \in CollNames |-> IF n = COLLECTION_NAME THEN MILVUS_DIM ELSE 0]
  /\ indexState = "finished"
  /\ storeHits = <<>>
  /\ honoursFilter = TRUE
  /\ call = [p \in Callers |-> Blank]
  /\ inserted = <<>>
  /\ \E a \in UNION { { [f \in 1..m |-> FileNode(f, c[f])] :
                           c \in { c \in [1..m -> {-1, 0, 1}] :
                                     /\ Cardinality({ f \in 1..m : c[f] = -1 }) <= 1
                                     /\ TotalChunks(c, m) <= ManyChunks } } :
                       m \in (MAX_CONCURRENT_FILES + 1)..ManyFiles } :
       post = [p \in Callers |->
                 IF p = 1 THEN Request([kind |-> "object", sessionId |-> "s1",
                                        codeFilesKind |-> "array", codeFiles |-> a])
                 ELSE NoRequest]

SpecFiles == InitFiles /\ [][NextPair]_vars

\* The chunker replies for the lowest file that waits for it.
ChunkerReplyInTurn(p) ==
  \E f \in DOMAIN post[p].fileState :
    /\ \A g \in 1..(f - 1) : post[p].fileState[g] # "chunking"
    /\ ChunkerReply(p, f)

\* The embedding service answers one call at a time, each with a payload:
\* of the calls in flight, the one of the lowest file and chunk. Chunker
\* and embedding replies interleave in any order.
EmbedReplyInTurn(p) ==
  /\ AllInFlight(post[p]) # {}
  /\ LET Before(a, b) == a[1] < b[1] \/ (a[1] = b[1] /\ a[2] <= b[2])
         fk == CHOOSE a \in AllInFlight(post[p]) : \A b \in AllInFlight(post[p]) : Before(a, b)
     IN EmbedReply(p, fk[1], fk[2], "ok")

WideStep(p) ==
  \/ ParseAndValidate(p)
  \/ StartFileBatch(p)
  \/ ChunkerReplyInTurn(p)
  \/ EmbedReplyInTurn(p)
  \/ \E f \in DOMAIN post[p].fileState : ChunkBatchDone(p, f)
  \/ FileBatchDone(p)
  \/ FlatAndCheck(p)

\* The codeFiles arrays that reach the ceilings: one file with more chunks
\* than the chunk ceiling, more files than the file ceiling with one chunk
\* each, and as many files as the file ceiling with as many chunks each as
\* the chunk ceiling.
\* One indexing request with one of the wide arrays, on a store that has the
\* collection and its finished index.
InitWide ==
  /\ RunUnused
  /\ collections = [n \in CollNames |-> IF n = COLLECTION_NAME THEN MILVUS_DIM ELSE 0]
  /\ indexState = "finished"
  /\ storeHits = <<>>
  /\ honoursFilter = TRUE
  /\ call = [p \in Callers |-> Blank]
  /\ inserted = <<>>
  /\ \E a \in { [f \in 1..1 |-> FileNode(f, ManyEmbeds)],
                 [f \in 1..ManyFiles |-> FileNode(f, 1)],
                 [f \in 1..MAX_CONCURRENT_FILES |-> FileNode(f, MAX_CONCURRENT_EMBEDDINGS)] } :
       post = [p \in Callers |->
                 IF p = 1 THEN Request([kind |-> "object", sessionId |-> "s1",
                                        codeFilesKind |-> "array", codeFiles |-> a])
                 ELSE NoRequest]

NextWide ==
  \/ \E p \in Callers : WideStep(p)
  \/ \E p \in Callers : Enter(p)
  \/ \E p \in Callers : HasCollection(p)
  \/ \E p \in Callers : InsertBatch(p)
  \/ \E p \in Callers : DescribeIndex(p)
  \/ \E p \in Callers : CreateIndex(p)
  \/ \E p \in Callers : PollOrTimeout(p)
  \/ \E p \in Callers : GetIndexStateReply(p, 0)
  \/ \E p \in Callers : IndexReturned(p)
  \/ \E p \in Callers : StoreThrew(p)

SpecWide == InitWide /\ [][NextWide]_vars

\* The CodeChunk array of a ZillizClient.insertVectors call.
CodeChunks(n) ==
  [k \in 1..n |->
     [ content |-> ContentOf(1, k), filePath |-> PathOf(1),
       embedding |-> EmbeddingOf(ContentOf(1, k)), sessionId |-> "s1",
       lineNumber |-> k ]]

\* An indexing request that has just called getMilvusClient, with n records
\* from one file.
AtStore(n) ==
  LET files == <<FileNode(1, n)>>
      records == [k \in 1..n |-> ChunkRecord(files, 1, k, "s1")]
  IN [NoRequest EXCEPT !.pc = "client",
                       !.body = [kind |-> "object", sessionId |-> "s1",
                                 codeFilesKind |-> "array", codeFiles |-> files],
                       !.i = MAX_CONCURRENT_FILES,
                       !.allEmbeddings = <<records>>,
                       !.embeddingsToInsert = records,
                       !.flatDone = TRUE]

\* The numbers of records the insert step is run with: around the multiples
\* of the batch size.
\* The store steps of POST on an empty store, or ZillizClient.insertVectors
\* on the collection.
InitInsert ==
  /\ RunUnused
  /\ indexState = "absent"
  /\ storeHits = <<>>
  /\ honoursFilter = TRUE
  /\ inserted = <<>>
  /\ \E n \in { n \in 1..(MaxFullBatches * INSERT_BATCH + 1) :
                   n % INSERT_BATCH \in {0, 1, INSERT_BATCH - 1} } :
       \/ /\ collections = [c \in CollNames |-> 0]
          /\ post = [p \in Callers |-> IF p = 1 THEN AtStore(n) ELSE NoRequest]
          /\ call = [p \in Callers |->
                       IF p = 1 THEN [Blank EXCEPT !.fn = "getMilvusClient"] ELSE Blank]
       \/ /\ collections = [c \in CollNames |-> IF c = COLLECTION_NAME THEN MILVUS_DIM ELSE 0]
          /\ post = [p \in Callers |->
                       IF p = 1 THEN [NoRequest EXCEPT !.data = CodeChunks(n)] ELSE NoRequest]
          /\ call = [p \in Callers |->
                       IF p = 1 THEN [Blank EXCEPT !.fn = "insertVectors"] ELSE Blank]

NextInsert ==
  \/ \E p \in Callers : StoreStep(p)
  \/ \E p \in Callers : InsertVectors(p)
  \/ StoreIndexProgress

SpecInsert == InitInsert /\ [][NextInsert]_vars

\* The store steps of one indexing request on a collection whose index an
\* earlier request may have requested: the index is in any state.
InitExisting ==
  /\ RunUnused
  /\ collections = [c \in CollNames |-> IF c = COLLECTION_NAME THEN MILVUS_DIM ELSE 0]
  /\ indexState \in {"absent", "building", "finished", "failed"}
  /\ storeHits = <<>>
  /\ honoursFilter = TRUE
  /\ inserted = <<>>
  /\ \E n \in 1..MaxTotal :
       post = [p \in Callers |-> IF p = 1 THEN AtStore(n) ELSE NoRequest]
  /\ call = [p \in Callers |-> IF p = 1 THEN [Blank EXCEPT !.fn = "getMilvusClient"] ELSE Blank]

NextExisting ==
  \/ \E p \in Callers : Enter(p)
  \/ \E p \in Callers : HasCollection(p)
  \/ \E p \in Callers : InsertBatch(p)
  \/ \E p \in Callers : DescribeIndex(p)
  \/ \E p \in Callers : CreateIndex(p)
  \/ \E p \in Callers : PollOrTimeout(p)
  \/ \E p \in Callers : GetIndexStateReply(p, 0)
  \/ \E p \in Callers : Sleep(p)
  \/ \E p \in Callers : IndexReturned(p)
  \/ \E p \in Callers : StoreThrew(p)
  \/ StoreIndexProgress

SpecExisting == InitExisting /\ [][NextExisting]_vars

\* The store steps of two indexing requests that run together on a store
\* that has neither the collection nor an index.
InitRace ==
  /\ RunUnused
  /\ collections = [c \in CollNames |-> 0]
  /\ indexState = "absent"
  /\ storeHits = <<>>
  /\ honoursFilter = TRUE
  /\ inserted = <<>>
  /\ post = [p \in Callers |-> IF p \in {1, 2} THEN AtStore(1) ELSE NoRequest]
  /\ call = [p \in Callers |->
               IF p \in {1, 2} THEN [Blank EXCEPT !.fn = "getMilvusClient"] ELSE Blank]

\* Each request is followed up to the end of its first poll of the index
\* state: every creation request is issued before the polling loop, and the
\* loops of two requests are independent of each other.
NextRace ==
  \/ \E p \in Callers : Enter(p)
  \/ \E p \in Callers : HasCollection(p)
  \/ \E p \in Callers : CreateCollection(p)
  \/ \E p \in Callers : InsertBatch(p)
  \/ \E p \in Callers : DescribeIndex(p)
  \/ \E p \in Callers : CreateIndex(p)
  \/ \E p \in Callers : PollOrTimeout(p)
  \/ \E p \in Callers : GetIndexStateReply(p, 0)
  \/ \E p \in Callers : IndexReturned(p)
  \/ \E p \in Callers : StoreThrew(p)
  \/ StoreIndexProgress

SpecRace == InitRace /\ [][NextRace]_vars

HitOfRow(row, idType) ==
  LET FieldOfRow(r, f, type) == IF f \in DOMAIN r THEN type ELSE "absent" IN
  [ id |-> idType,
    content |-> FieldOfRow(row, "content", "string"),
    file_path |-> FieldOfRow(row, "file_path", "string"),
    filePath |-> FieldOfRow(row, "filePath", "string"),
    embedding |-> FieldOfRow(row, "embedding", "array"),
    sessionId |-> IF "sessionId" \in DOMAIN row THEN row.sessionId ELSE "absent",
    score |-> "number",
    lineNumber |-> FieldOfRow(row, "lineNumber", "number") ]

\* The store ranks the rows of the collection for a search request that has
\* arrived.
StoreRanksRows ==
  /\ \E p \in Callers : call[p].pc = "searching"
  /\ \E idType \in {"number", "string"} :
       LET hits == [j \in 1..Len(inserted) |-> HitOfRow(inserted[j], idType)]
       IN /\ storeHits # hits
          /\ storeHits' = hits
  /\ UNCHANGED <<runVars, collections, indexState, honoursFilter, call, postVars>>

\* An indexing request at its store steps and a search of the same session
\* by either gateway, on a store that has the collection and its finished
\* index and no rows yet.
InitIndexed ==
  /\ RunUnused
  /\ collections = [c \in CollNames |-> IF c = COLLECTION_NAME THEN MILVUS_DIM ELSE 0]
  /\ indexState = "finished"
  /\ storeHits = <<>>
  /\ honoursFilter = TRUE
  /\ inserted = <<>>
  /\ \E n \in 1..MaxTotal :
       post = [p \in Callers |-> IF p = 1 THEN AtStore(n) ELSE NoRequest]
  /\ \E f \in {"searchVectors", "zillizSearchVectors"} :
       call = [p \in Callers |->
                 IF p = 1 THEN [Blank EXCEPT !.fn = "getMilvusClient"]
                 ELSE IF p = 2 THEN [Blank EXCEPT !.fn = f, !.session = "s1", !.limit = MaxHits]
                 ELSE Blank]

NextIndexed ==
  \/ \E p \in Callers : Enter(p)
  \/ \E p \in Callers : HasCollection(p)
  \/ \E p \in Callers : InsertBatch(p)
  \/ \E p \in Callers : DescribeIndex(p)
  \/ \E p \in Callers : CreateIndex(p)
  \/ \E p \in Callers : PollOrTimeout(p)
  \/ \E p \in Callers : GetIndexStateReply(p, 0)
  \/ \E p \in Callers : IndexReturned(p)
  \/ \E p \in Callers : StoreThrew(p)
  \/ \E p \in Callers : SearchRequest(p)
  \/ \E p \in Callers : SearchReply(p)
  \/ StoreRanksRows

SpecIndexed == InitIndexed /\ [][NextIndexed]_vars

(***************************************************************************)
(* ApiClient.getBuildGuideStream (lib/api-client.ts)                       *)
(***************************************************************************)
\* A text is a sequence of characters. NL and SP are the newline and the
\* space; DATA stands for the five characters of 'data:', so that
\* <<DATA, SP>> is the prefix 'data: '.
NL == "\n"
SP == " "
DATA == "data:"

\* String.prototype.trim(): white space is removed from both ends.
RECURSIVE LeadingWhite(_)
LeadingWhite(s) ==
  IF s = <<>> \/ Head(s) \notin {NL, SP} THEN 0 ELSE 1 + LeadingWhite(Tail(s))
Trim(s) ==
  LET RECURSIVE TrailingWhite(_)
      TrailingWhite(r) ==
        IF r = <<>> \/ r[Len(r)] \notin {NL, SP} THEN 0
        ELSE 1 + TrailingWhite(SubSeq(r, 1, Len(r) - 1))
  IN IF LeadingWhite(s) = Len(s) THEN <<>>
     ELSE SubSeq(s, LeadingWhite(s) + 1, Len(s) - TrailingWhite(s))

\* substring(from), with the 0-based index of the code.
SubstringFrom(s, from) == SubSeq(s, from + 1, Len(s))

\* buffer.indexOf('\n\n'): the 0-based index of the first occurrence, or -1.
IndexOfBlankLine(s) ==
  LET found == { j \in 1..(Len(s) - 1) : s[j] = NL /\ s[j + 1] = NL }
  IN IF found = {} THEN -1
     ELSE (CHOOSE j \in found : \A k \in found : j <= k) - 1

\* eventBlock.split('\n'): the lines, each with the position in the response
\* text of its first character (at is the position of the first of s).
RECURSIVE SplitLines(_, _)
SplitLines(s, at) ==
  LET nls == { j \in 1..Len(s) : s[j] = NL } IN
    IF nls = {} THEN <<[at |-> at, line |-> s]>>
    ELSE LET n == CHOOSE j \in nls : \A k \in nls : j <= k
         IN <<[at |-> at, line |-> SubSeq(s, 1, n - 1)]>>
            \o SplitLines(SubSeq(s, n + 1, Len(s)), at + n)

\* JSON.parse succeeds: of the texts made of these characters, on the
\* numbers (digits only); it throws on the rest.
JsonValid(jsonString) ==
  jsonString # <<>> /\ \A k \in 1..Len(jsonString) : jsonString[k] \in {"1", "2"}

\* The body of the for loop over the lines: the callback called for a line.
CallsOfLine(entry) ==
  IF Len(entry.line) >= 2 /\ SubSeq(entry.line, 1, 2) = <<DATA, SP>>   \* line.startsWith('data: ')
    THEN LET jsonString == Trim(SubstringFrom(entry.line, 2)) IN       \* line.substring(6).trim()
           IF jsonString = <<>> THEN <<>>
           ELSE IF JsonValid(jsonString)
             THEN <<[cb |-> "onUpdate", data |-> jsonString, at |-> entry.at]>>
             ELSE <<[cb |-> "onError", data |-> jsonString, at |-> entry.at]>>
    ELSE <<>>
RECURSIVE CallsOfLines(_)
CallsOfLines(lines) ==
  IF lines = <<>> THEN <<>> ELSE CallsOfLine(Head(lines)) \o CallsOfLines(Tail(lines))

\* buffer += decoder.decode(value, { stream: true })
ReplaceBuffer(buffer, chunk) == chunk
AppendChunk(buffer, chunk) == buffer \o chunk

\* The inner while loop: cut the complete events from the front of the
\* buffer and handle the lines of each.
RECURSIVE Drain(_)
Drain(st) ==
  LET eventEndIndex == IndexOfBlankLine(st.buffer) IN
    IF eventEndIndex = -1 THEN st
    ELSE LET raw == SubSeq(st.buffer, 1, eventEndIndex)   \* buffer.substring(0, eventEndIndex)
             eventBlock == Trim(raw)
             lines == SplitLines(eventBlock, st.consumed + LeadingWhite(raw) + 1)
         IN Drain([st EXCEPT !.buffer = SubstringFrom(st.buffer, eventEndIndex + 2),
                             !.consumed = @ + eventEndIndex + 2,
                             !.calls = @ \o CallsOfLines(lines)])

StreamCall(cb) == [cb |-> cb, data |-> <<>>, at |-> 0]

\* await fetch(...) resolves: the status check and getReader.
FetchReply ==
  /\ stream.pc = "fetch"
  /\ stream' =
       IF ~stream.ok \/ ~stream.hasBody
         THEN [stream EXCEPT !.calls = Append(@, StreamCall("onError")), !.pc = "returned"]
         ELSE [stream EXCEPT !.pc = "reading"]
  /\ UNCHANGED <<runnerVars, chat, storeVars, call, postVars>>

\* await reader.read() resolves with the next k characters of the body.
Read(k) ==
  /\ stream.pc = "reading"
  /\ stream.pos + k <= Len(stream.text)
  /\ LET value == SubSeq(stream.text, stream.pos + 1, stream.pos + k)
         end == stream.pos + k
     IN stream' = Drain([stream EXCEPT
                           !.pos = end,
                           !.buffer = AppendChunk(@, value),
                           !.cutInDelimiter = @ \/ (/\ end < Len(stream.text)
                                                    /\ stream.text[end] = NL
                                                    /\ stream.text[end + 1] = NL)])
  /\ UNCHANGED <<runnerVars, chat, storeVars, call, postVars>>

\* await reader.read() resolves with done: onComplete.
ReadDone ==
  /\ stream.pc = "reading"
  /\ stream.pos = Len(stream.text)
  /\ stream' = [stream EXCEPT !.calls = Append(@, StreamCall("onComplete")), !.pc = "returned"]
  /\ UNCHANGED <<runnerVars, chat, storeVars, call, postVars>>

\* fetch or reader.read() rejects: the catch block calls onError.
StreamFails ==
  /\ stream.pc \in {"fetch", "reading"}
  /\ stream' = [stream EXCEPT !.calls = Append(@, StreamCall("onError")), !.pc = "returned"]
  /\ UNCHANGED <<runnerVars, chat, storeVars, call, postVars>>

\* The lines a response body is made of: a data line with a number, an
\* empty line, a data line whose payload is not JSON, a data line after a
\* space, and a data line without payload. The response bodies are these
\* lines joined, each followed by a newline, the last one or not.
StreamTexts ==
  LET StreamLines ==
        { <<DATA, SP, "1">>, <<>>, <<DATA, SP, "{">>, <<SP, DATA, SP, "2">>, <<DATA, SP>> }
      RECURSIVE JoinLines(_, _)
      JoinLines(lines, lastEnds) ==
        IF lines = <<>> THEN <<>>
        ELSE Head(lines)
             \o (IF Len(lines) > 1 \/ lastEnds THEN <<NL>> ELSE <<>>)
             \o JoinLines(Tail(lines), lastEnds)
  IN { JoinLines(lines, lastEnds) :
         lines \in UNION { [1..n -> StreamLines] : n \in 0..MaxLines }, lastEnds \in BOOLEAN }

InitStream ==
  /\ RunnerUnused
  /\ StoreUnused
  /\ PostUnused
  /\ call = [p \in Callers |-> Blank]
  /\ chat = NoChat
  /\ \E text \in StreamTexts, ok \in BOOLEAN, hasBody \in BOOLEAN :
       /\ (~ok \/ ~hasBody) => text = <<>>
       /\ stream = [NoStream EXCEPT !.pc = "fetch", !.ok = ok, !.hasBody = hasBody,
                                     !.text = text]

NextStream ==
  \/ FetchReply
  \/ \E k \in 1..(Len(stream.text) - stream.pos) : Read(k)
  \/ ReadDone
  \/ StreamFails

SpecStream == InitStream /\ [][NextStream]_vars

(***************************************************************************)
(* ChatModeContent                                                         *)
(***************************************************************************)

\* addMessage appends one message of the type.
AddMessage(c, type) == [c EXCEPT !.messages = Append(@, type)]


\* A chatMessage event arrives, with a session id in its detail or without.
\* With one, the message is added and sendChatMessage runs up to its await:
\* the indicator on, the error cleared, the request sent.
HandleChatMessage(hasSession) ==
  /\ chat.mounted
  /\ chat.events < MaxChats
  /\ chat' = [ (IF hasSession
                  THEN [AddMessage(chat, "user")
                          EXCEPT !.isTyping = TRUE, !.chatError = "null",
                                 !.requests = Append(@, "inFlight")]
                  ELSE [chat EXCEPT !.chatError = "noSession"])
               EXCEPT !.events = @ + 1 ]
  /\ UNCHANGED <<runnerVars, stream, storeVars, call, postVars>>

\* sendChatMessage from its await on: request k comes back with a response
\* with success ("success"), a response without ("failure") or a rejection
\* ("rejected"), the answer or the error text becomes a message, and the
\* finally block turns the indicator off.
ChatSettles(k, outcome) ==
  /\ chat.mounted
  /\ k \in 1..Len(chat.requests)
  /\ chat.requests[k] = "inFlight"
  /\ chat' = [ AddMessage(chat, "ai")
               EXCEPT !.chatError = IF outcome = "success" THEN @ ELSE outcome,
                      !.isTyping = FALSE,
                      !.requests[k] = outcome ]
  /\ UNCHANGED <<runnerVars, stream, storeVars, call, postVars>>

InitChat ==
  /\ RunnerUnused
  /\ StoreUnused
  /\ PostUnused
  /\ call = [p \in Callers |-> Blank]
  /\ stream = NoStream
  /\ chat = [NoChat EXCEPT !.mounted = TRUE]

NextChat ==
  \/ \E hasSession \in BOOLEAN : HandleChatMessage(hasSession)
  \/ \E k \in 1..MaxChats, outcome \in {"success", "failure", "rejected"} :
       ChatSettles(k, outcome)

SpecChat == InitChat /\ [][NextChat]_vars

(***************************************************************************)
(* Properties of processConcurrently                                       *)
(***************************************************************************)
Settled == {"fulfilled", "rejected"}
InFlight == { k \in 1..Len(items) : opState[k] = "running" }
Fulfilled == { k \in 1..Len(items) : opState[k] = "fulfilled" }
\* The batch a position belongs to when the items are cut into consecutive
\* batches of maxConcurrency.
BatchNo(k) == ((k - 1) \div maxConcurrency) + 1
ResultSet == { results[x] : x \in 1..Len(results) }

\* C1: at every instant the number of processor operations started and not
\* yet settled is at most maxConcurrency.
C1_BoundedConcurrency == Cardinality(InFlight) <= maxConcurrency
C1_Witness ==
  /\ maxConcurrency >= 2
  /\ Len(items) > maxConcurrency
  /\ Cardinality(InFlight) = maxConcurrency

\* C2: a rejected operation neither makes the run reject nor aborts the
\* batch: every item of a batch the loop has passed is settled, and every
\* fulfilled one has its value in the results.
C2_FailureIsolated ==
  /\ pcRun # "rejected"
  /\ \A k \in 1..Len(items) :
       k <= i => /\ opState[k] \in Settled
                 /\ opState[k] = "fulfilled" => ValueOf(items[k]) \in ResultSet
  /\ pcRun = "done" => \A k \in 1..Len(items) : opState[k] \in Settled
C2_Witness ==
  /\ pcRun = "done"
  /\ \E j, k \in 1..Len(items) :
       /\ BatchNo(j) = BatchNo(k)
       /\ j < k
       /\ opState[j] = "rejected"
       /\ opState[k] = "fulfilled"
       /\ ValueOf(items[k]) \in ResultSet

\* C3: the batches are the consecutive runs of exactly maxConcurrency items
\* (the last possibly smaller), and no operation of a batch is started before
\* every operation of the earlier batches has settled.
C3_BatchesSequential ==
  /\ \A b \in 1..Len(batches) :
       batches[b] = { k \in 1..Len(items) :
                        (b - 1) * maxConcurrency < k /\ k <= b * maxConcurrency }
  /\ \A j, k \in 1..Len(items) :
       (opState[k] # "idle" /\ BatchNo(j) < BatchNo(k)) => opState[j] \in Settled
  /\ pcRun = "done" =>
       Len(batches) = (Len(items) + maxConcurrency - 1) \div maxConcurrency
C3_Witness ==
  /\ Len(items) = 7
  /\ maxConcurrency = 5
  /\ Len(batches) = 2
  /\ Cardinality(batches[1]) = 5
  /\ Cardinality(batches[2]) = 2
  /\ \E k \in batches[1] : opState[k] = "rejected"
  /\ \E k \in batches[2] : opState[k] = "running"

\* C4: the returned sequence holds exactly the values of the fulfilled
\* operations, one each, and nothing for a rejected one; for no items it is
\* empty and no operation is started.
C4_ExactlySuccesses ==
  /\ pcRun = "done" =>
       /\ Len(results) = Cardinality(Fulfilled)
       /\ ResultSet = { ValueOf(items[k]) : k \in Fulfilled }
  /\ Len(items) = 0 => (results = <<>> /\ batches = <<>>)
  /\ pcRun = "done" => \A k \in 1..Len(items) : startCount[k] = 1
C4_Witness ==
  /\ pcRun = "done"
  /\ \E j, k \in 1..Len(items) : opState[j] = "rejected" /\ opState[k] = "fulfilled"
  /\ Len(results) < Len(items)

(***************************************************************************)
(* Properties of the ensure-collection operations                          *)
(***************************************************************************)
SameCollection(p, q) == call[p].name = call[q].name /\ call[p].dim = call[q].dim

\* C7 as stated: any two calls with the same name and dimension issue the
\* createCollection request at most once in total.
C7_AtMostOneCreate ==
  \A p, q \in Callers :
    (p # q /\ SameCollection(p, q)) => call[p].creates + call[q].creates <= 1

\* C7, amended: a call that finds the collection present creates nothing, no
\* call issues more than one request, and a call that begins after a call for
\* the same collection has returned creates nothing, so that the two issue at
\* most one request in total.
C7_SequentialIdempotent ==
  \A q \in Callers :
    /\ call[q].creates <= 1
    /\ call[q].hasValue = "true" => call[q].creates = 0
    /\ \A p \in call[q].after :
         /\ call[q].hasValue # "false"
         /\ call[q].creates = 0
         /\ call[p].creates + call[q].creates <= 1
C7_Witness ==
  \E p, q \in Callers :
    /\ p \in call[q].after
    /\ call[p].creates = 1
    /\ Returned(q)
    /\ call[q].hasValue = "true"
    /\ call[q].fn # call[p].fn

(***************************************************************************)
(* Properties of the search gateways                                       *)
(***************************************************************************)
OutSessions(p) == { call[p].out[x].sessionId : x \in 1..Len(call[p].out) }
ForeignRows == { x \in 1..Len(storeHits) : storeHits[x].sessionId # call[1].session }

\* C5 as stated: whatever hits the store returns, also when it ignores the
\* filter, no returned hit has a sessionId other than the one searched for.
C5_NoForeignHit ==
  \A p \in Callers : Returned(p) => OutSessions(p) \subseteq {call[p].session}

\* C5, amended: every search request carries the filter sessionId == s, and
\* when the store applies that filter no returned hit has a sessionId other
\* than s; the gateways do not compare a hit's sessionId with s themselves.
C5_FilteredStoreNoForeignHit ==
  \A p \in Callers :
    /\ call[p].sentFilter.field # "unsent" =>
         call[p].sentFilter = [field |-> "sessionId", equals |-> call[p].session]
    /\ (Returned(p) /\ honoursFilter) => OutSessions(p) \subseteq {call[p].session}
C5_Witness ==
  /\ Returned(1)
  /\ honoursFilter
  /\ Len(call[1].out) = 1
  /\ \E x \in ForeignRows : MilvusHitOk(storeHits[x]) \/ ZillizHitOk(storeHits[x])

(***************************************************************************)
(* Properties of createIndexIfNeeded                                       *)
(***************************************************************************)
Ended(p) == Returned(p) \/ Threw(p)
NoIndexWork(p) ==
  call[p].createIndexCalls = 0 /\ call[p].polls = 0 /\ call[p].sleeps = 0

C8_FailedStopsPolling ==
  \A p \in Callers :
    call[p].sawFailed =>
      /\ Threw(p)
      /\ call[p].error = "Index creation failed"
      /\ call[p].polls = call[p].pollsAtFailed
      /\ call[p].sleeps = call[p].sleepsAtFailed
C8_Witness ==
  \E p \in Callers :
    /\ call[p].sawFailed
    /\ call[p].polls = 1
    /\ call[p].sleeps = 0
    /\ Threw(p)

\* C9: while every poll since the createIndex request reports a building
\* index, the call makes at most MAX_RETRIES getIndexState requests and never
\* returns success; it ends by throwing the timeout error after MAX_RETRIES
\* polls.
C9_BuildingTimesOut ==
  \A p \in Callers :
    call[p].buildingRun =>
      /\ call[p].polls <= MAX_RETRIES
      /\ ~Returned(p)
      /\ Threw(p) => (call[p].error = "Index creation timed out"
                      /\ call[p].polls = MAX_RETRIES)
C9_Witness ==
  \E p \in Callers :
    /\ call[p].buildingRun
    /\ Threw(p)
    /\ call[p].polls = MAX_RETRIES
    /\ call[p].sleeps = MAX_RETRIES
    /\ call[p].error = "Index creation timed out"

\* C10: no getIndexState request is started once the time since the index
\* was requested, reply times included, exceeds MAX_INDEX_WAIT_TIME.
C10_WallClockCap ==
  \A p \in Callers : call[p].lastPollWall <= MAX_INDEX_WAIT_TIME

\* min(POLLING_INTERVAL * 1.2^k, cap) in 1/TimeScale ms: the power stops
\* growing once it is above the cap.
RECURSIVE Geometric(_)
Geometric(k) ==
  IF k = 0 THEN POLLING_INTERVAL * TimeScale
  ELSE LET prev == Geometric(k - 1) IN
         IF prev > MAX_POLL_INTERVAL * TimeScale THEN prev ELSE (prev * 6) \div 5
Polling(p) == call[p].pc \in {"loop", "getState", "sleep"}

\* C11: the interval of the sleep after k completed sleeps is
\* min(POLLING_INTERVAL * 1.2^k, 10000) ms: 2000 ms at first, never less than
\* the one before, never above the cap.
C11_IntervalSchedule ==
  \A p \in Callers :
    Polling(p) =>
      /\ call[p].pollInterval = Min(Geometric(call[p].sleeps), MAX_POLL_INTERVAL * TimeScale)
      /\ call[p].sleeps = 0 => call[p].pollInterval = 2000 * TimeScale
      /\ call[p].prevInterval <= call[p].pollInterval
      /\ call[p].pollInterval <= 10000 * TimeScale
C11_Witness ==
  \E p \in Callers :
    /\ call[p].pc = "sleep"
    /\ call[p].sleeps = 9
    /\ call[p].prevInterval < call[p].pollInterval
    /\ call[p].pollInterval = MAX_POLL_INTERVAL * TimeScale

\* C12: whatever states the store reports, the polling loop makes at most
\* MAX_RETRIES iterations and the sum of its sleep intervals stays at most
\* max(MAX_INDEX_WAIT_TIME, MAX_RETRIES * 10000) ms.
C12_SleepSumBounded ==
  \A p \in Callers :
    /\ call[p].sleeps <= MAX_RETRIES
    /\ call[p].polls <= call[p].sleeps + 1
    /\ call[p].sleptMs <= Max(MAX_INDEX_WAIT_TIME, MAX_RETRIES * 10000)
    /\ call[p].elapsedTime[1] < Max(MAX_INDEX_WAIT_TIME, MAX_RETRIES * 10000)
C12_Witness ==
  \E p \in Callers :
    /\ Threw(p)
    /\ call[p].sleeps = MAX_RETRIES
    /\ call[p].sleptMs > 250000
    /\ call[p].sleptMs <= call[p].elapsedTime[1]

\* C13: the nlist sent with createIndex for n vectors is
\* min(128, max(4, ceil(n/2))), where ceil(n/2) is the least c with 2c >= n;
\* it lies in [4, 128] and is not below the nlist of any smaller n.
C13_NlistFormula ==
  \A p \in Callers :
    call[p].createIndexCalls > 0 =>
      LET n == call[p].total
          half == CHOOSE c \in 0..n : 2 * c >= n /\ 2 * (c - 1) < n
      IN /\ call[p].nlist = (IF half < 4 THEN 4 ELSE IF half > 128 THEN 128 ELSE half)
         /\ call[p].nlist >= 4
         /\ call[p].nlist <= 128
         /\ \A m \in 1..n : Nlist(m) <= call[p].nlist
C13_Witness ==
  \E p \in Callers :
    /\ call[p].createIndexCalls = 1
    /\ call[p].total = 255
    /\ call[p].nlist = 128


(***************************************************************************)
(* Properties of POST and of the insert step                               *)
(***************************************************************************)
Answered(p) == post[p].responses # <<>>
LastReq(p) == post[p].insertReqs[Len(post[p].insertReqs)]

\* C14: every insert request carries at most 1000 records, the requests
\* follow each other in the order of the records, and once the insert step
\* is over they cover the whole record sequence, each record once.
C14_InsertAtMostThousand ==
  \A p \in Callers :
    LET reqs == post[p].insertReqs
        records == IF call[p].fn = "insertVectors" THEN post[p].data
                   ELSE post[p].embeddingsToInsert
    IN /\ \A j \in DOMAIN reqs : reqs[j].to - reqs[j].from + 1 <= 1000
       /\ \A j \in DOMAIN reqs : reqs[j].from = (IF j = 1 THEN 1 ELSE reqs[j - 1].to + 1)
       /\ \A j \in DOMAIN reqs : reqs[j].to <= Len(records)
       /\ (post[p].pc = "index" \/ (call[p].fn = "insertVectors" /\ Returned(p))) =>
            /\ reqs # <<>>
            /\ LastReq(p).to = Len(records)
            /\ Len(inserted) = Len(records)

\* The part of C14 that is about POST: its insert loop.
PostInsertBatches ==
  \A p \in Callers :
    post[p].pc # "idle" =>
      LET reqs == post[p].insertReqs
          records == post[p].embeddingsToInsert
      IN /\ \A j \in DOMAIN reqs : reqs[j].to - reqs[j].from + 1 <= 1000
         /\ \A j \in DOMAIN reqs : reqs[j].from = (IF j = 1 THEN 1 ELSE reqs[j - 1].to + 1)
         /\ inserted = SubSeq(records, 1, Len(inserted))
         /\ post[p].pc = "index" => reqs # <<>> /\ LastReq(p).to = Len(records)
                                    /\ inserted = records
PostInsertBatchesWitness ==
  \E p \in Callers :
    /\ post[p].pc = "index"
    /\ Len(post[p].insertReqs) = 3
    /\ Len(inserted) = 2 * INSERT_BATCH + 1

\* C15: with an empty flattened record sequence the request answers with the
\* nothing-to-index response and has made no call to the store: no
\* collection check or creation, no insert, no index request.
C15_EmptyMakesNoStoreCall ==
  \A p \in Callers :
    (post[p].flatDone /\ post[p].embeddingsToInsert = <<>>) =>
      /\ post[p].responses = <<NoEmbeddingsResponse>>
      /\ post[p].pc = "done"
      /\ call[p] = Blank
      /\ post[p].insertReqs = <<>>
      /\ inserted = <<>>
C15_Witness ==
  \E p \in Callers :
    /\ post[p].flatDone
    /\ post[p].embeddingsToInsert = <<>>
    /\ Answered(p)
    /\ \E f \in DOMAIN post[p].body.codeFiles : Len(post[p].body.codeFiles[f].chunks) = 2
    /\ \E f \in DOMAIN post[p].body.codeFiles : Len(post[p].body.codeFiles[f].chunks) = 0

\* C16: every record pairs the content of one chunk of the request with the
\* vector the embedding service computed for that content, the path of the
\* file that chunk came from and the session id of the request.
RecordOfFile(r, req, f) ==
  /\ r.sessionId = req.body.sessionId
  /\ r.file_path = req.body.codeFiles[f].path
  /\ \E k \in DOMAIN req.body.codeFiles[f].chunks : r.content = req.body.codeFiles[f].chunks[k]
  /\ r.embedding = EmbeddingOf(r.content)
RecordOfRequest(r, req) == \E f \in DOMAIN req.body.codeFiles : RecordOfFile(r, req, f)
OkChunks(req, f) == { k \in DOMAIN req.chunkState[f] : req.chunkState[f][k] = "ok" }
C17_OneCallPerChunk ==
  \A p \in Callers :
    \A f \in DOMAIN post[p].fileState :
      LET req == post[p]
          chunks == req.body.codeFiles[f].chunks
          value == req.fileValue[f]
      IN /\ \A k \in DOMAIN chunks :
              req.embedCalls[f][k] = (IF req.chunkState[f][k] = "idle" THEN 0 ELSE 1)
         /\ req.fileState[f] = "fulfilled" =>
              /\ req.body.codeFiles[f].chunkerThrows \/ \A k \in DOMAIN chunks : req.embedCalls[f][k] = 1
              /\ Len(value) = Cardinality(OkChunks(req, f))
              /\ \A k \in OkChunks(req, f) : \E j \in DOMAIN value : value[j].content = chunks[k]
              /\ \A j \in DOMAIN value : \E k \in OkChunks(req, f) : value[j].content = chunks[k]
              /\ \A j1, j2 \in DOMAIN value : j1 < j2 =>
                   \E k1, k2 \in DOMAIN chunks :
                     k1 < k2 /\ value[j1].content = chunks[k1] /\ value[j2].content = chunks[k2]
C17_Witness ==
  \E p \in Callers :
    \E f \in DOMAIN post[p].fileState :
      /\ post[p].fileState[f] = "fulfilled"
      /\ \E k1, k2, k3 \in DOMAIN post[p].chunkState[f] :
           /\ post[p].chunkState[f][k1] = "error"
           /\ post[p].chunkState[f][k2] = "empty"
           /\ post[p].chunkState[f][k3] = "ok"
      /\ Len(post[p].fileValue[f]) = 1

\* C18: when a store step fails the request answers once, with the failure
\* response, and issues no later store step: no insert and no index request
\* after a failed getMilvusClient, no further batch and no index request
\* after a failed insert; the batches inserted before stay in the store.
C18_StoreFailureStops ==
  \A p \in Callers :
    LET req == post[p]
        all == req.embeddingsToInsert
    IN (req.pc # "idle" /\ req.flatDone /\ all # <<>>) =>
         /\ inserted = SubSeq(all, 1, Len(inserted))
         /\ Answered(p) =>
              /\ Len(req.responses) = 1
              /\ IF call[p].fn = "createIndexIfNeeded" /\ Returned(p)
                   THEN req.responses[1].success = "true" /\ inserted = all
                   ELSE /\ req.responses[1].success = "false"
                        /\ req.responses[1].status = 500
                        /\ call[p].fn = "getMilvusClient" /\ Threw(p) =>
                             /\ req.insertReqs = <<>>
                             /\ inserted = <<>>
                        /\ call[p].fn = "getMilvusClient" /\ Returned(p) =>
                             /\ req.insertReqs # <<>>
                             /\ inserted = SubSeq(all, 1, LastReq(p).from - 1)
                        /\ call[p].fn = "getMilvusClient" =>
                             /\ call[p].createIndexCalls = 0
                             /\ call[p].polls = 0
                             /\ call[p].indexInfo = Blank.indexInfo
                        /\ call[p].fn = "createIndexIfNeeded" =>
                             /\ Threw(p)
                             /\ inserted = all
C18_Witness ==
  \E p \in Callers :
    /\ Answered(p)
    /\ post[p].responses[1].success = "false"
    /\ Len(post[p].insertReqs) = 2
    /\ Len(inserted) = INSERT_BATCH
    /\ Len(post[p].embeddingsToInsert) > 2 * INSERT_BATCH
    /\ call[p].fn = "getMilvusClient"

\* C19: with two requests of different sessions running together, the rows
\* of each session are the records of its own request, in order: all of
\* them once its insert has returned, none if its insert or an earlier step
\* failed; no row belongs to neither session.
RECURSIVE RowsOf(_, _)
RowsOf(stored, s) ==
  IF stored = <<>> THEN <<>>
  ELSE (IF Head(stored).sessionId = s THEN <<Head(stored)>> ELSE <<>>)
       \o RowsOf(Tail(stored), s)
C19_SessionsIsolated ==
  /\ \A j \in DOMAIN inserted :
       \E p \in Callers : post[p].pc # "idle" /\ inserted[j].sessionId = post[p].body.sessionId
  /\ \A p \in Callers :
       post[p].pc # "idle" =>
         LET mine == RowsOf(inserted, post[p].body.sessionId)
             all == post[p].embeddingsToInsert
         IN /\ mine = SubSeq(all, 1, Len(mine))
            /\ call[p].fn = "createIndexIfNeeded" => mine = all
            /\ call[p].fn # "createIndexIfNeeded" => mine = <<>>
C19_Witness ==
  /\ \A p \in {1, 2} : Answered(p) /\ post[p].responses[1].success = "true"
  /\ Len(inserted) = 2
  /\ inserted[1].sessionId = "s2"
  /\ inserted[2].sessionId = "s1"

\* C20 as stated: a request that has ended has returned exactly one response, which
\* is the success payload or a payload with success = false and a message;
\* a request that has not ended has returned none.
C20_OneResponseShape ==
  \A p \in Callers :
    /\ post[p].pc # "done" => post[p].responses = <<>>
    /\ post[p].pc = "done" =>
         /\ Len(post[p].responses) = 1
         /\ LET r == post[p].responses[1] IN
              \/ /\ r.success = "true"
                 /\ {"success", "totalChunks", "processingTime", "indexingTime"} \subseteq r.keys
              \/ /\ r.success = "false"
                 /\ {"success", "message"} \subseteq r.keys
                 /\ r.message # "undefined"

\* C20 as the code has it: a request that has ended has returned exactly
\* one response. It is the success payload with status 200 exactly when
\* createIndexIfNeeded returned; an invalid body gets status 400 with error
\* and details, an empty record sequence status 400 with a message, a store
\* failure or unreadable body status 500 with success = false and a
\* message. Every failure payload has an error or message text.
C20_OneResponseByStatus ==
  \A p \in Callers :
    /\ post[p].pc # "done" => post[p].responses = <<>>
    /\ post[p].pc = "done" =>
         /\ Len(post[p].responses) = 1
         /\ LET r == post[p].responses[1]
                body == post[p].body
            IN /\ r.status = 200 <=> (call[p].fn = "createIndexIfNeeded" /\ Returned(p))
               /\ r.status = 200 =>
                    /\ r.success = "true"
                    /\ r.keys = {"success", "message", "totalChunks", "processingTime",
                                 "indexingTime"}
                    /\ r.totalChunks = <<Len(post[p].embeddingsToInsert)>>
               /\ r.status # 200 =>
                    /\ r.success # "true"
                    /\ "error" \in r.keys \/ r.message # "undefined"
                    /\ IF body.kind = "malformed"
                         THEN r.status = 500 /\ r.success = "false" /\ r.message # "undefined"
                       ELSE IF body.sessionId = "" \/ body.codeFilesKind # "array"
                         THEN r = InvalidRequestResponse
                       ELSE IF post[p].embeddingsToInsert = <<>>
                         THEN r = NoEmbeddingsResponse
                       ELSE /\ r.status = 500
                            /\ r.success = "false"
                            /\ r.message # "undefined"
                            /\ {"success", "message"} \subseteq r.keys
C20_Witness ==
  \E p \in Callers :
    /\ post[p].pc = "done"
    /\ post[p].responses = <<InvalidRequestResponse>>
    /\ post[p].body.sessionId = ""
    /\ Len(post[p].body.codeFiles) = 2

\* C21: the steps of a request are ordered: no store call before every file
\* and every embedding call has settled, no insert before getMilvusClient
\* has returned with the collection in the store, no createIndexIfNeeded
\* before the insert requests have returned for the whole record sequence.
C21_StepsOrdered ==
  \A p \in Callers :
    post[p].pc # "idle" =>
      /\ ~post[p].flatDone => call[p] = Blank /\ post[p].insertReqs = <<>> /\ inserted = <<>>
      /\ call[p].fn # "none" =>
           /\ post[p].flatDone
           /\ post[p].unsettledAtFlat = 0
           /\ Unsettled(post[p]) = 0
      /\ post[p].insertReqs # <<>> =>
           /\ collections[COLLECTION_NAME] # 0
           /\ call[p].hasValue = "true" \/ call[p].creates = 1
           /\ call[p].fn = "createIndexIfNeeded" \/ Returned(p)
      /\ call[p].fn = "createIndexIfNeeded" =>
           /\ post[p].insertReqs # <<>>
           /\ LastReq(p).to = Len(post[p].embeddingsToInsert)
           /\ inserted = post[p].embeddingsToInsert
C21_Witness ==
  \E p \in Callers :
    /\ call[p].fn = "createIndexIfNeeded"
    /\ call[p].createIndexCalls = 1
    /\ call[p].creates = 1
    /\ Len(inserted) = 3
    /\ Len(post[p].body.codeFiles) = 2

\* C22: a file whose chunker throws contributes no record and the failure
\* stays in that file: no response is returned for it, the file runner goes
\* through every batch, every chunk of the other files gets its embedding
\* call, and the records flattened and inserted are those of all the chunks
\* answered with a payload.
C22_ChunkerFailureIsolated ==
  \A p \in Callers :
    post[p].pc # "idle" =>
      LET req == post[p]
          files == req.body.codeFiles
      IN /\ ~req.flatDone => ~Answered(p)
         /\ \A f \in DOMAIN req.fileState :
              (files[f].chunkerThrows /\ req.fileState[f] = "fulfilled") => req.fileValue[f] = <<>>
         /\ (req.pc = "files" /\ req.i >= Len(files)) =>
              /\ Len(req.allEmbeddings) = Len(files)
              /\ \A f \in DOMAIN files :
                   /\ req.fileState[f] = "fulfilled"
                   /\ req.allEmbeddings[f] = req.fileValue[f]
                   /\ ~files[f].chunkerThrows =>
                        /\ \A k \in DOMAIN files[f].chunks : req.embedCalls[f][k] = 1
                        /\ Len(req.fileValue[f]) = Cardinality(OkChunks(req, f))
         /\ req.flatDone =>
              /\ Len(req.embeddingsToInsert) = req.payloads
              /\ \A f \in DOMAIN files :
                   files[f].chunkerThrows =>
                     \A j \in DOMAIN req.embeddingsToInsert :
                       req.embeddingsToInsert[j].file_path # files[f].path
         /\ (Answered(p) /\ req.responses[1].success = "true") =>
              inserted = req.embeddingsToInsert
C22_Witness ==
  \E p \in Callers :
    /\ Answered(p)
    /\ post[p].responses[1].success = "true"
    /\ post[p].body.codeFiles[1].chunkerThrows
    /\ { inserted[j].file_path : j \in DOMAIN inserted }
         = { PathOf(2), PathOf(MAX_CONCURRENT_FILES + 1) }

(***************************************************************************)
(* C23                                                                     *)
(***************************************************************************)
\* The hits the store returned to caller p.
HitsReturnedTo(p) ==
  StoreSearch(storeHits, call[p].sentFilter, call[p].limit, honoursFilter)

\* The expected shape of a hit: the fields of a row as the gateway reads it,
\* each of the type the gateway stores.
ExpectedShape(fn, h) ==
  IF fn = "searchVectors"
    THEN /\ h.id = "number"
         /\ h.content = "string"
         /\ h.file_path = "string"
         /\ h.embedding = "array"
         /\ h.sessionId \in Sessions
    ELSE /\ h.id \in {"number", "string"}
         /\ h.content = "string"
         /\ h.filePath = "string"
         /\ h.sessionId \in Sessions
         /\ h.score = "number"
         /\ h.lineNumber = "number"

\* C23: whenever the store answered a search with a hit list, the call
\* returned (it did not throw), and what it returned is the hits of the
\* expected shape, one result per such hit, in the order of the store's
\* list; every other hit is left out.
C23_MalformedHitsDropped ==
  \A p \in Callers :
    call[p].replied =>
      LET fn == call[p].fn
          Shaped(h) == ExpectedShape(fn, h)
          kept == SelectSeq(HitsReturnedTo(p), Shaped)
          out == call[p].out
      IN /\ call[p].pc = "returned"
         /\ Len(out) = Len(kept)
         /\ \A k \in 1..Len(kept) :
              /\ out[k].sessionId = kept[k].sessionId
              /\ out[k].content = kept[k].content
              /\ IF fn = "searchVectors"
                   THEN /\ out[k].file_path = kept[k].file_path
                        /\ out[k].id = kept[k].id
                        /\ out[k].embedding = kept[k].embedding
                   ELSE /\ out[k].filePath = kept[k].filePath
                        /\ out[k].lineNumber = kept[k].lineNumber
                        /\ out[k].score = kept[k].score

\* The store returned a hit without any field followed by a well-formed hit,
\* and the call returned the well-formed hit alone.
C23_Witness ==
  /\ call[1].replied
  /\ call[1].fn = "searchVectors"
  /\ Len(HitsReturnedTo(1)) = 2
  /\ HitsReturnedTo(1)[1] = NoFields
  /\ HitsReturnedTo(1)[2] = MilvusRow("s1")
  /\ call[1].pc = "returned"
  /\ Len(call[1].out) = 1

(***************************************************************************)
(* C24                                                                     *)
(***************************************************************************)
\* C24: the totalChunks of a success response is the number of rows of the
\* request's session in the store, all inserted by this request, and it is
\* the number of embedding calls of the request that returned a non-empty
\* payload.
C24_TotalChunksIsInserted ==
  \A p \in Callers :
    (Answered(p) /\ post[p].responses[1].success = "true") =>
      LET mine == RowsOf(inserted, post[p].body.sessionId) IN
        /\ post[p].responses[1].totalChunks = <<Len(mine)>>
        /\ Len(mine) = post[p].payloads

\* A request with two files: calls with a payload, with an empty payload and
\* with an error; it succeeded and reports the two rows it inserted.
C24_Witness ==
  /\ Answered(1)
  /\ post[1].responses[1].success = "true"
  /\ post[1].responses[1].totalChunks = <<2>>
  /\ Len(post[1].body.codeFiles) = 2
  /\ Len(post[1].body.codeFiles[1].chunks) + Len(post[1].body.codeFiles[2].chunks) = 3
  /\ Len(inserted) = 2
  /\ inserted[1].file_path # inserted[2].file_path

C26_SuccessMeansFinished ==
  \A p \in Callers :
    (Answered(p) /\ post[p].responses[1].success = "true") => indexState = "finished"

\* What holds instead: a request that requested the index itself reports
\* success only on a finished index.
C26_OwnIndexFinished ==
  \A p \in Callers :
    (Answered(p) /\ post[p].responses[1].success = "true" /\ call[p].createIndexCalls > 0)
      => indexState = "finished"
C26_OwnIndexFinishedWitness ==
  /\ Answered(1)
  /\ post[1].responses[1].success = "true"
  /\ call[1].createIndexCalls = 1
  /\ call[1].polls > 1

(***************************************************************************)
(* C27                                                                     *)
(***************************************************************************)
\* The creation requests of all callers.
RECURSIVE CreatesUpTo(_)
CreatesUpTo(n) == IF n = 0 THEN 0 ELSE call[n].creates + CreatesUpTo(n - 1)
RECURSIVE CreateIndexCallsUpTo(_)
CreateIndexCallsUpTo(n) ==
  IF n = 0 THEN 0 ELSE call[n].createIndexCalls + CreateIndexCallsUpTo(n - 1)

\* C27 as stated: the two requests issue createCollection at most once and
\* createIndex at most once in total.
C27_AtMostOnceInTotal ==
  /\ CreatesUpTo(NumCallers) <= 1
  /\ CreateIndexCallsUpTo(NumCallers) <= 1

\* C27, amended: no request issues createCollection or createIndex more than
\* once; a request that entered getMilvusClient when the collection existed
\* issues no createCollection; a request that entered createIndexIfNeeded
\* when the index existed and whose describeIndex did not fail issues no
\* createIndex; with such a request the two issue each creation request at
\* most once in total.
C27_CreateOnlyIfSeenAbsent ==
  \A q \in Callers :
    LET sawCollection == call[q].collectionAtCall
        sawIndex == call[q].fn = "createIndexIfNeeded" /\ call[q].existedAtCall
                    /\ ~call[q].indexInfo.isNull
    IN /\ call[q].creates <= 1
       /\ call[q].createIndexCalls <= 1
       /\ sawCollection => call[q].creates = 0
       /\ sawIndex => call[q].createIndexCalls = 0
       /\ sawCollection => CreatesUpTo(NumCallers) <= 1
       /\ sawIndex => CreateIndexCallsUpTo(NumCallers) <= 1

\* Request 1 created the collection and requested the index; request 2 found
\* both and issued no creation request; both returned success.
C27_Witness ==
  /\ call[1].creates = 1
  /\ call[1].createIndexCalls = 1
  /\ call[2].collectionAtCall
  /\ call[2].existedAtCall
  /\ call[2].describeFound
  /\ call[2].creates = 0
  /\ call[2].createIndexCalls = 0
  /\ \A p \in {1, 2} : Answered(p) /\ post[p].responses[1].success = "true"

(***************************************************************************)
(* C28                                                                     *)
(***************************************************************************)
\* The describeIndex request of caller p has failed.
DescribeFailed(p) ==
  /\ call[p].fn = "createIndexIfNeeded"
  /\ call[p].pc \notin {"idle", "describe"}
  /\ call[p].indexInfo.isNull

\* C28: after a failed describeIndex request the call does not end before
\* it has issued its createIndex request, whatever the state of the index;
\* once that request has resolved the call polls the index state before it
\* ends, and it returns or throws by what createIndex and the polls report.
C28_DescribeFailureMeansCreate ==
  \A p \in Callers :
    DescribeFailed(p) =>
      /\ call[p].createIndexCalls = 0 => call[p].pc = "createIndex"
      /\ call[p].createIndexCalls <= 1
      /\ Ended(p) => call[p].createIndexCalls = 1
      /\ (Ended(p) /\ call[p].error # "createIndex failed") => call[p].polls >= 1
      /\ Returned(p) => indexState = "finished"

\* The index was finished when the call began, describeIndex failed, and the
\* call issued createIndex, polled once and returned.
C28_Witness ==
  /\ DescribeFailed(1)
  /\ call[1].existedAtCall
  /\ indexState = "finished"
  /\ call[1].createIndexCalls = 1
  /\ call[1].polls = 1
  /\ Returned(1)

(***************************************************************************)
(* C29                                                                     *)
(***************************************************************************)
\* C29: at every moment the results array holds the values of fulfilled
\* items in the order of the input: of two results the one of the earlier
\* item comes first, and no item has two results.
C29_ResultsInInputOrder ==
  \A x, y \in 1..Len(results) :
    x < y => \E j, k \in 1..Len(items) :
               /\ j < k
               /\ results[x] = ValueOf(items[j])
               /\ results[y] = ValueOf(items[k])

\* Every item was fulfilled, a later call of a batch before an earlier one,
\* and the runner returned the values of all items.
C29_Witness ==
  /\ pcRun = "done"
  /\ overtook
  /\ Len(items) >= 3
  /\ maxConcurrency >= 2
  /\ Len(results) = Len(items)

(***************************************************************************)
(* C30                                                                     *)
(***************************************************************************)
\* C30: when every started processor call settles, the runner eventually
\* returns, and when it has returned the processor was called exactly once
\* for every item.
C30_ReturnsHavingStartedAll ==
  <>(pcRun = "done" /\ \A k \in 1..Len(items) : startCount[k] = 1)

\* The runner returned after several batches, the last one not full, with a
\* rejected call among them, and every item was started once.
C30_Witness ==
  /\ pcRun = "done"
  /\ Len(items) = MaxItems
  /\ maxConcurrency > 1
  /\ Len(items) % maxConcurrency # 0
  /\ Len(batches) > 2
  /\ \E k \in 1..Len(items) : opState[k] = "rejected"
  /\ \A k \in 1..Len(items) : startCount[k] = 1

(***************************************************************************)
(* C31                                                                     *)
(***************************************************************************)
\* C31: a search that was answered with hits of rows the indexing request
\* wrote returns a result for every one of them.
C31_IndexedRowsRetrievable ==
  \A p \in Callers :
    call[p].replied => Len(call[p].out) = Len(HitsReturnedTo(p))

\* What holds instead: lib/milvus searchVectors keeps every such hit whose
\* id arrives as a number.
C31_MilvusKeepsNumberIds ==
  \A p \in Callers :
    (call[p].replied /\ call[p].fn = "searchVectors"
       /\ \A j \in 1..Len(storeHits) : storeHits[j].id = "number")
      => Len(call[p].out) = Len(HitsReturnedTo(p))
C31_MilvusKeepsWitness ==
  /\ call[2].replied
  /\ call[2].fn = "searchVectors"
  /\ Len(inserted) = 2
  /\ Len(call[2].out) = 2
  /\ Answered(1)

(***************************************************************************)
(* C32                                                                     *)
(***************************************************************************)
\* The lines of a text t: where they start, what they hold, where they end.
LineStarts(t) == { a \in 1..Len(t) : a = 1 \/ t[a - 1] = NL }
LineEnd(t, a) ==
  LET nls == { j \in a..Len(t) : t[j] = NL }
  IN IF nls = {} THEN Len(t) + 1 ELSE CHOOSE j \in nls : \A k \in nls : j <= k
LineAt(t, a) == SubSeq(t, a, LineEnd(t, a) - 1)
IsDataLine(line) == Len(line) >= 2 /\ line[1] = DATA /\ line[2] = SP
PayloadOf(line) == Trim(SubSeq(line, 3, Len(line)))
\* The line belongs to a complete event of t: a blank line ends it or
\* follows it.
InCompleteEvent(t, a) ==
  \E j \in LineEnd(t, a)..(Len(t) - 1) : t[j] = NL /\ t[j + 1] = NL
\* The data lines of the complete events of t whose payload parses.
DataLinesOf(t) ==
  { a \in LineStarts(t) :
      /\ IsDataLine(LineAt(t, a))
      /\ JsonValid(PayloadOf(LineAt(t, a)))
      /\ InCompleteEvent(t, a) }

\* The onUpdate calls made for data lines of the response text.
IsUpdateOfDataLine(c) ==
  /\ c.cb = "onUpdate"
  /\ c.at \in LineStarts(stream.text)
  /\ IsDataLine(LineAt(stream.text, c.at))

\* C32: whatever chunks the reader has returned, the onUpdate calls made
\* for data lines are those of the data lines of the complete events of the
\* text read so far, one call each, in the order of the text, each with the
\* parsed payload of its line; onComplete is called at most once, as the
\* last callback and when the whole text has been read, and the call that
\* ended without a failure has called it.
C32_StreamDelivery ==
  LET read == SubSeq(stream.text, 1, stream.pos)
      ups == SelectSeq(stream.calls, IsUpdateOfDataLine)
      n == Len(stream.calls)
  IN /\ { ups[k].at : k \in 1..Len(ups) } = DataLinesOf(read)
     /\ \A k \in 1..(Len(ups) - 1) : ups[k].at < ups[k + 1].at
     /\ \A k \in 1..Len(ups) : ups[k].data = PayloadOf(LineAt(stream.text, ups[k].at))
     /\ \A k \in 1..n :
          stream.calls[k].cb = "onComplete" =>
            /\ k = n
            /\ stream.pos = Len(stream.text)
            /\ stream.pc = "returned"
     /\ stream.pc = "returned" =>
          /\ n > 0
          /\ stream.calls[n] \in {StreamCall("onComplete"), StreamCall("onError")}

\* Two events were delivered although a chunk ended between the two
\* newlines of a delimiter, and onComplete was called last.
C32_Witness ==
  /\ stream.pc = "returned"
  /\ stream.cutInDelimiter
  /\ Len(stream.calls) = 3
  /\ stream.calls[1].cb = "onUpdate"
  /\ stream.calls[2].cb = "onUpdate"
  /\ stream.calls[1].at < stream.calls[2].at
  /\ stream.calls[3] = StreamCall("onComplete")

(***************************************************************************)
(* C33  the typing indicator and the requests in flight                    *)
(***************************************************************************)
ChatsInFlight == { k \in 1..Len(chat.requests) : chat.requests[k] = "inFlight" }

\* C33: in ChatModeContent isTyping is true whenever at least one chat
\* request is in flight and false once none is, for every interleaving of
\* chatMessage events and responses.
C33_TypingReflectsRequests ==
  chat.mounted => (chat.isTyping <=> ChatsInFlight # {})

\* The half that holds: with no request in flight the indicator is off.
C33_IdleMeansNotTyping ==
  (chat.mounted /\ ChatsInFlight = {}) => ~chat.isTyping
C33_IdleWitness ==
  /\ chat.mounted
  /\ Len(chat.requests) = 2
  /\ ChatsInFlight = {}
  /\ ~chat.isTyping

====
